---------------------------- MODULE Spec2Model ----------------------------
(***************************************************************************)
(* A model of app.py: the sixteen source adapters, the fan-out aggregator  *)
(* search_all_sources, and the formatter format_results.                   *)
(*                                                                         *)
(* Python values are modelled as tagged records, Python strings as TLA+    *)
(* strings (Len, \o and SubSeq act on them character by character), and a  *)
(* Python dict as the sequence of its <<key, value>> pairs in insertion    *)
(* order.  An expression that raises evaluates to an exception value that  *)
(* every later operation passes through, up to the enclosing try/except.   *)
(***************************************************************************)
EXTENDS Integers, Sequences, FiniteSets, TLC

(***************************************************************************)
(* Bounds of the model.                                                    *)
(***************************************************************************)
\* how many times, in one run, a future gets ahead of another: a worker finishes
\* while one submitted before it still runs, or a future is yielded while one
\* that finished before it still waits
MaxOvertake == 1
\* how many finished futures may wait for as_completed to yield them
MaxBacklog == 1
\* how many adapters may deviate from the environment's base outcome
MaxDeviant == 1
\* how many items a response body lists
MaxItems == 2
\* how many words or phrases a query for detect_mode is built of
MaxWords == 3
\* how many messages the conversation holds
MaxMessages == 8
\* how many interactions (chat inputs, buttons) one behaviour has
MaxRuns == 2

(***************************************************************************)
(* Sequences and strings.                                                  *)
(***************************************************************************)
Range(f) == {f[i] : i \in DOMAIN f}

Min(a, b) == IF a < b THEN a ELSE b

\* Python: sub in s
Contains(sub, s) ==
  \E i \in 0..(Len(s) - Len(sub)) : SubSeq(s, i + 1, i + Len(sub)) = sub

\* Python: s.startswith(p)
StartsWith(s, p) == Len(s) >= Len(p) /\ SubSeq(s, 1, Len(p)) = p

\* Python: s[:n], on a string or on a list
Slice(s, n) == SubSeq(s, 1, Min(n, Len(s)))

Digit(d) == SubSeq("0123456789", d + 1, d + 1)

RECURSIVE IntToStr(_)
\* Python: str(n) for an int n >= 0
IntToStr(n) == IF n < 10 THEN Digit(n) ELSE IntToStr(n \div 10) \o Digit(n % 10)

RECURSIVE IntToStrComma(_)
\* Python: f"{n:,}" for an int n >= 0
IntToStrComma(n) ==
  IF n < 1000 THEN IntToStr(n)
  ELSE IntToStrComma(n \div 1000) \o ","
         \o Digit((n % 1000) \div 100) \o Digit((n % 100) \div 10) \o Digit(n % 10)

RECURSIVE JoinStr(_, _)
\* Python: sep.join(parts) for a list of strings
JoinStr(sep, parts) ==
  IF parts = <<>> THEN ""
  ELSE IF Len(parts) = 1 THEN parts[1]
  ELSE LET half == Len(parts) \div 2 IN
         JoinStr(sep, SubSeq(parts, 1, half)) \o sep
           \o JoinStr(sep, SubSeq(parts, half + 1, Len(parts)))

IsSpace(c) == c \in {" ", "\t", "\n"}

RECURSIVE LStrip(_)
LStrip(s) == IF s # "" /\ IsSpace(Head(s)) THEN LStrip(Tail(s)) ELSE s

RECURSIVE RStrip(_)
RStrip(s) ==
  IF s # "" /\ IsSpace(SubSeq(s, Len(s), Len(s)))
  THEN RStrip(SubSeq(s, 1, Len(s) - 1)) ELSE s

\* Python: s.strip()
Strip(s) == RStrip(LStrip(s))

RECURSIVE FirstWordEnd(_, _)
\* the index of the last character of the word of s that starts at i
FirstWordEnd(s, i) ==
  IF i < Len(s) /\ ~IsSpace(SubSeq(s, i + 1, i + 1)) THEN FirstWordEnd(s, i + 1) ELSE i

RECURSIVE Split(_)
\* Python: s.split(), the whitespace-delimited words of s
Split(s) ==
  LET t == LStrip(s) IN
    IF t = "" THEN <<>>
    ELSE LET e == FirstWordEnd(t, 1) IN
           <<SubSeq(t, 1, e)>> \o Split(SubSeq(t, e + 1, Len(t)))

RECURSIVE Replace(_, _, _)
\* Python: s.replace(c, r) for a single character c
Replace(s, c, r) ==
  IF s = "" THEN ""
  ELSE (IF Head(s) = c THEN r ELSE Head(s)) \o Replace(Tail(s), c, r)

(***************************************************************************)
(* Python values.  S: str, I: int, B: bool, None, L: list, D: dict (its    *)
(* pairs in insertion order), Exc: the exception an expression raised.     *)
(***************************************************************************)
S(s) == [s |-> s]
I(n) == [i |-> n]
B(b) == [b |-> b]
None == [none |-> TRUE]
L(l) == [l |-> l]
D(pairs) == [d |-> pairs]
Exc(msg) == [exc |-> msg]

IsStr(v) == "s" \in DOMAIN v
IsInt(v) == "i" \in DOMAIN v
IsBool(v) == "b" \in DOMAIN v
IsNone(v) == "none" \in DOMAIN v
IsList(v) == "l" \in DOMAIN v
IsDict(v) == "d" \in DOMAIN v
IsExc(v) == "exc" \in DOMAIN v

\* the first exception among the values vs, in evaluation order
FirstExc(vs) ==
  IF \A i \in DOMAIN vs : ~IsExc(vs[i]) THEN None
  ELSE vs[CHOOSE i \in DOMAIN vs : IsExc(vs[i]) /\ \A j \in 1..(i - 1) : ~IsExc(vs[j])]

AnyExc(vs) == \E i \in DOMAIN vs : IsExc(vs[i])

\* Python: bool(v)
Truthy(v) ==
  IF IsStr(v) THEN v.s # ""
  ELSE IF IsInt(v) THEN v.i # 0
  ELSE IF IsBool(v) THEN v.b
  ELSE IF IsList(v) THEN v.l # <<>>
  ELSE IF IsDict(v) THEN v.d # <<>>
  ELSE FALSE

\* Python: k in d, for a dict d
HasKey(dv, k) == IsDict(dv) /\ \E i \in DOMAIN dv.d : dv.d[i][1] = k

Lookup(dv, k) == dv.d[CHOOSE i \in DOMAIN dv.d : dv.d[i][1] = k][2]

\* Python: d.get(k, dflt); a str, a list or None has no .get
Get(dv, k, dflt) ==
  IF IsExc(dv) THEN dv
  ELSE IF ~IsDict(dv) THEN Exc("AttributeError: no attribute 'get'")
  ELSE IF HasKey(dv, k) THEN Lookup(dv, k) ELSE dflt

\* Python: d[k]
Item(dv, k) ==
  IF IsExc(dv) THEN dv
  ELSE IF ~IsDict(dv) THEN Exc("TypeError: indices must be integers")
  ELSE IF HasKey(dv, k) THEN Lookup(dv, k) ELSE Exc("KeyError: " \o k)

\* Python: v[0]
Index0(v) ==
  IF IsExc(v) THEN v
  ELSE IF IsList(v) THEN (IF v.l = <<>> THEN Exc("IndexError: list index out of range")
                          ELSE v.l[1])
  ELSE IF IsStr(v) THEN (IF v.s = "" THEN Exc("IndexError: string index out of range")
                         ELSE S(Head(v.s)))
  ELSE IF IsDict(v) THEN Item(v, "0")
  ELSE Exc("TypeError: object is not subscriptable")

\* Python: v[:n]
SliceV(v, n) ==
  IF IsExc(v) THEN v
  ELSE IF IsStr(v) THEN S(Slice(v.s, n))
  ELSE IF IsList(v) THEN L(Slice(v.l, n))
  ELSE Exc("TypeError: object is not subscriptable")

\* Python: len(v)
LenV(v) ==
  IF IsStr(v) THEN Len(v.s) ELSE IF IsList(v) THEN Len(v.l)
  ELSE IF IsDict(v) THEN Len(v.d) ELSE 0

\* the elements a for loop over v visits; None and numbers are not iterable
Iter(v) ==
  IF IsExc(v) THEN <<v>>
  ELSE IF IsList(v) THEN v.l
  ELSE IF IsDict(v) THEN [i \in DOMAIN v.d |-> S(v.d[i][1])]
  ELSE IF IsStr(v) THEN [i \in 1..Len(v.s) |-> S(SubSeq(v.s, i, i))]
  ELSE <<Exc("TypeError: object is not iterable")>>

RECURSIVE Repr(_)
RECURSIVE ReprItems(_)
RECURSIVE ReprPairs(_)
\* Python: repr(v)
Repr(v) ==
  IF IsStr(v) THEN "'" \o v.s \o "'"
  ELSE IF IsInt(v) THEN IntToStr(v.i)
  ELSE IF IsBool(v) THEN (IF v.b THEN "True" ELSE "False")
  ELSE IF IsNone(v) THEN "None"
  ELSE IF IsList(v) THEN "[" \o ReprItems(v.l) \o "]"
  ELSE IF IsDict(v) THEN "{" \o ReprPairs(v.d) \o "}"
  ELSE v.exc

ReprItems(l) ==
  IF l = <<>> THEN ""
  ELSE IF Len(l) = 1 THEN Repr(l[1])
  ELSE Repr(l[1]) \o ", " \o ReprItems(Tail(l))

ReprPairs(p) ==
  IF p = <<>> THEN ""
  ELSE LET one == "'" \o p[1][1] \o "': " \o Repr(p[1][2]) IN
         IF Len(p) = 1 THEN one ELSE one \o ", " \o ReprPairs(Tail(p))

\* Python: str(v), and the text an f-string puts for {v}
Str(v) == IF IsStr(v) THEN v.s ELSE Repr(v)

\* Python: a dict display {k1: e1, ...}: it raises what its first raising e raises
MkDict(pairs) ==
  LET vals == [i \in DOMAIN pairs |-> pairs[i][2]] IN
    IF AnyExc(vals) THEN FirstExc(vals) ELSE D(pairs)

\* Python: an f-string of the parts ps (strings, or an exception a part raised)
Fmt(ps) ==
  IF AnyExc(ps) THEN FirstExc(ps)
  ELSE S(JoinStr("", [i \in DOMAIN ps |-> Str(ps[i])]))

\* Python: sep.join(v) for a list v of str
JoinV(sep, v) ==
  IF IsExc(v) THEN v
  ELSE IF ~(IsList(v) \/ IsStr(v) \/ IsDict(v)) THEN Exc("TypeError: can only join an iterable")
  ELSE IF \E i \in DOMAIN Iter(v) : ~IsStr(Iter(v)[i])
       THEN Exc("TypeError: sequence item: expected str instance")
  ELSE S(JoinStr(sep, [i \in DOMAIN Iter(v) |-> Iter(v)[i].s]))

\* Python: a if c else b
Cond(c, a, b) == IF IsExc(c) THEN c ELSE IF Truthy(c) THEN a ELSE b

\* Python: for x in v: results.append(F(x)).  acc is the list built when the loop
\* ended, exc the exception that ended it (None when it ran to its end).
ForEach(v, F(_)) ==
  LET it == Iter(v)
      rs == [i \in DOMAIN it |-> F(it[i])]
      bad == {i \in DOMAIN rs : IsExc(rs[i])}
      k == CHOOSE i \in bad : \A j \in bad : i <= j
  IN [acc |-> IF bad = {} THEN rs ELSE SubSeq(rs, 1, k - 1),
      exc |-> IF bad = {} THEN None ELSE rs[k]]

\* Python: [F(x) for x in v]
ListComp(v, F(_)) ==
  LET loop == ForEach(v, F) IN IF IsExc(loop.exc) THEN loop.exc ELSE L(loop.acc)

\* the index of the first occurrence of sub in s, 0 when there is none
FindSub(s, sub) ==
  IF Contains(sub, s)
  THEN CHOOSE i \in 1..(Len(s) - Len(sub) + 1) :
         /\ SubSeq(s, i, i + Len(sub) - 1) = sub
         /\ \A j \in 1..(i - 1) : SubSeq(s, j, j + Len(sub) - 1) # sub
  ELSE 0

\* Python: s.split(sep)[0] when sep occurs in s
SplitHead(s, sep) == SubSeq(s, 1, FindSub(s, sep) - 1)

\* Python: s.split(sep, 1)[1] when sep occurs in s
SplitRest(s, sep) == SubSeq(s, FindSub(s, sep) + Len(sep), Len(s))

\* Python: s.split(sep)[1] when sep occurs in s
SplitSecond(s, sep) ==
  LET rest == SplitRest(s, sep) IN
    IF Contains(sep, rest) THEN SplitHead(rest, sep) ELSE rest

(***************************************************************************)
(* The outside world of an adapter.  An HTTP exchange is the response the  *)
(* GET meets: NetErr (requests.get raises: no connection, timeout) or a    *)
(* status and a body; the body is the Python value response.json() gives,  *)
(* or Malformed when the body does not parse.  http is the sequence of     *)
(* exchanges the adapter's successive GETs meet.                           *)
(***************************************************************************)
NetErr(msg) == [neterr |-> msg]
Malformed == [malformed |-> TRUE]
Resp(status, body) == [status |-> status, body |-> body]

\* one outbound request, as the adapter issues it
Req(url, timeout) == [url |-> url, timeout |-> timeout]

\* requests.get(...) meeting exchange n
HttpGet(http, n) ==
  IF "neterr" \in DOMAIN http[n] THEN Exc(http[n].neterr) ELSE http[n]

\* response.json()
Json(response) ==
  IF IsExc(response) THEN response
  ELSE IF "malformed" \in DOMAIN response.body
       THEN Exc("JSONDecodeError: Expecting value")
  ELSE response.body

\* an adapter's outcome: what it returns (or the exception that left it), and the
\* requests it issued
Outcome(ret, reqs) == [ret |-> ret, reqs |-> reqs]

ErrorRecord(e) == D(<< <<"error", S(e.exc)>> >>)

\* a handler that lets the exception through
except_list_reraise(e, results) == e

\* a handler that marks the records built so far instead of dropping them
except_list_partial(e, results) ==
  L([i \in DOMAIN results |->
       IF IsDict(results[i]) THEN D(results[i].d \o << <<"error", S(e.exc)>> >>)
       ELSE results[i]] \o <<ErrorRecord(e)>>)

\* except Exception as e: return [{"error": str(e)}]  (results: the list built so far)
except_list(e, results) == L(<<ErrorRecord(e)>>)

\* except Exception as e: return {"error": str(e)}
except_dict(e) == ErrorRecord(e)

\* try: ... return results / except ...: of a list adapter whose loop ended as `loop`
TryLoop(loop) ==
  IF IsExc(loop.exc) THEN except_list(loop.exc, loop.acc) ELSE L(loop.acc)

\* try: ... return v / except ...: of a list adapter
TryList(v) == IF IsExc(v) THEN except_list(v, <<>>) ELSE v

\* try: ... return v / except ...: of a single-record adapter
TryDict(v) == IF IsExc(v) THEN except_dict(v) ELSE v

(***************************************************************************)
(* search_arxiv.  lib is the arxiv client: the papers its generator yields *)
(* and fail, the position at which the generator raises (0: never).        *)
(***************************************************************************)
arxiv_record(paper) ==
  MkDict(<< <<"title", Item(paper, "title")>>,
            <<"authors", ListComp(Item(paper, "authors"), LAMBDA a : Item(a, "name"))>>,
            <<"summary", Item(paper, "summary")>>,
            <<"published", Cond(Item(paper, "published"), Item(paper, "published"), S("N/A"))>>,
            <<"url", Item(paper, "entry_id")>>,
            <<"pdf_url", Item(paper, "pdf_url")>>,
            <<"categories", Item(paper, "categories")>>,
            <<"doi", Item(paper, "doi")>> >>)

search_arxiv(query, max_results, lib) ==
  LET n == Min(Len(lib.papers), max_results)
      yielded == IF lib.fail \in 1..(n + 1)
                 THEN SubSeq(lib.papers, 1, lib.fail - 1) \o <<Exc("arxiv.HTTPError")>>
                 ELSE SubSeq(lib.papers, 1, n)
  IN Outcome(TryLoop(ForEach(L(yielded), arxiv_record)),
             <<Req("arxiv.Client.results", 0)>>)

(***************************************************************************)
(* search_duckduckgo                                                       *)
(***************************************************************************)
\* the record the loop appends for one related topic (None: it appends nothing)
ddg_topic(topic) ==
  IF IsExc(topic) THEN topic
  ELSE IF IsDict(topic) /\ HasKey(topic, "Text") /\ HasKey(topic, "FirstURL") THEN
    LET text == Get(topic, "Text", S("")) IN
      IF ~IsStr(text) THEN Exc("TypeError: argument is not iterable")
      ELSE MkDict(<< <<"title", IF Contains(" - ", text.s)
                                THEN S(SplitHead(text.s, " - ")) ELSE text>>,
                     <<"body", IF Contains(" - ", text.s)
                               THEN S(SplitSecond(text.s, " - ")) ELSE S("")>>,
                     <<"url", Get(topic, "FirstURL", S(""))>>,
                     <<"type", S("related_topic")>> >>)
  ELSE IF IsStr(topic) /\ Contains(" - ", topic.s) THEN
    D(<< <<"title", S(SplitHead(topic.s, " - "))>>,
         <<"body", S(SplitRest(topic.s, " - "))>>,
         <<"url", S("")>>,
         <<"type", S("related_topic")>> >>)
  ELSE None

RECURSIVE ddg_topics(_, _, _)
\* for topic in data.get("RelatedTopics", []): ... if len(results) >= max_results: break
ddg_topics(topics, results, max_results) ==
  IF topics = <<>> THEN [acc |-> results, exc |-> None]
  ELSE LET r == ddg_topic(Head(topics))
           after == IF IsNone(r) THEN results ELSE Append(results, r)
       IN IF IsExc(r) THEN [acc |-> results, exc |-> r]
          ELSE IF Len(after) >= max_results THEN [acc |-> after, exc |-> None]
          ELSE ddg_topics(Tail(topics), after, max_results)

\* the body of search_duckduckgo on the exchange http[n]
ddg_body(max_results, http, n) ==
  LET data == Json(HttpGet(http, n))
      abstract == Get(data, "AbstractText", None)
      instant == MkDict(<< <<"title", Get(data, "Heading", S("Instant Answer"))>>,
                           <<"body", Get(data, "AbstractText", S(""))>>,
                           <<"url", Get(data, "AbstractURL", S(""))>>,
                           <<"type", S("instant_answer")>> >>)
      first == IF Truthy(abstract) THEN <<instant>> ELSE <<>>
      topics == Iter(Get(data, "RelatedTopics", L(<<>>)))
  IN IF IsExc(abstract) THEN [acc |-> <<>>, exc |-> abstract]
     ELSE ddg_topics(topics, first, max_results)

search_duckduckgo(query, max_results, http) ==
  Outcome(TryLoop(ddg_body(max_results, http, 1)),
          <<Req("https://api.duckduckgo.com/", 10)>>)

(***************************************************************************)
(* get_instant_answer                                                      *)
(***************************************************************************)
get_instant_answer(query, http) ==
  LET data == Json(HttpGet(http, 1)) IN
    Outcome(TryDict(MkDict(<< <<"answer", Get(data, "AbstractText", S(""))>>,
                              <<"heading", Get(data, "Heading", S(""))>>,
                              <<"url", Get(data, "AbstractURL", S(""))>>,
                              <<"image", Get(data, "Image", S(""))>> >>)),
            <<Req("https://api.duckduckgo.com/", 10)>>)

(***************************************************************************)
(* search_news.  The body of the HTML exchange is what the two regular     *)
(* expressions find in response.text: {"titles": [...], "snippets": [...]} *)
(* (any other body holds no match).                                        *)
(***************************************************************************)
news_found(response, key) ==
  IF IsDict(response.body) /\ HasKey(response.body, key)
  THEN Lookup(response.body, key).l ELSE <<>>

search_news(query, max_results, http) ==
  LET response == HttpGet(http, 1)
      titles == news_found(response, "titles")
      snippets == news_found(response, "snippets")
      n == Min(Min(Len(titles), max_results), Len(snippets))
      results == [i \in 1..n |->
                    D(<< <<"title", titles[i]>>,
                         <<"body", snippets[i]>>,
                         <<"source", S("DuckDuckGo")>>,
                         <<"url", S("https://duckduckgo.com/?q=" \o Replace(query, " ", "+"))>> >>)]
      first == Req("https://duckduckgo.com/html/", 10)
  IN IF IsExc(response) THEN Outcome(except_list(response, <<>>), <<first>>)
     ELSE IF results # <<>> THEN Outcome(L(results), <<first>>)
     ELSE \* Fallback to regular search
          Outcome(TryLoop(ddg_body(max_results, http, 2)),
                  <<first, Req("https://api.duckduckgo.com/", 10)>>)

(***************************************************************************)
(* search_wikipedia.  lib is the wikipedia package: what search() gives    *)
(* (a list of titles, or NetErr) and what page() gives (the page's         *)
(* attributes, a disambiguation with its options, a page error, NetErr).   *)
(***************************************************************************)
Disambiguation(options) == [disambiguation |-> options]
PageError == [pageerror |-> TRUE]

LibCall(r) == IF "neterr" \in DOMAIN r THEN Exc(r.neterr) ELSE r

wikipedia_page(query, page) ==
  IF IsExc(page) THEN page
  ELSE IF "disambiguation" \in DOMAIN page THEN
    MkDict(<< <<"exists", B(TRUE)>>,
              <<"title", S(query)>>,
              <<"summary", Fmt(<<S("Multiple pages found. Options: "),
                                 JoinV(", ", SliceV(page.disambiguation, 5))>>)>>,
              <<"url", S("https://en.wikipedia.org/wiki/" \o Replace(query, " ", "_"))>>,
              <<"disambiguation", SliceV(page.disambiguation, 10)>> >>)
  ELSE IF "pageerror" \in DOMAIN page THEN
    D(<< <<"exists", B(FALSE)>>, <<"message", S("Page not found")>> >>)
  ELSE
    MkDict(<< <<"exists", B(TRUE)>>,
              <<"title", Item(page, "title")>>,
              <<"summary", Item(page, "summary")>>,
              <<"url", Item(page, "url")>>,
              <<"categories", SliceV(Item(page, "categories"), 5)>>,
              <<"content", SliceV(Item(page, "content"), 1000)>> >>)

search_wikipedia(query, lib) ==
  LET search_results == LibCall(lib.search)
      searched == <<Req("wikipedia.search", 0)>>
  IN IF IsExc(search_results) THEN Outcome(except_dict(search_results), searched)
     ELSE IF ~Truthy(search_results)
          THEN Outcome(D(<< <<"exists", B(FALSE)>>,
                            <<"message", S("No Wikipedia page found")>> >>), searched)
     ELSE Outcome(TryDict(wikipedia_page(query, LibCall(lib.page))),
                  searched \o <<Req("wikipedia.page", 0)>>)

(***************************************************************************)
(* get_weather_wttr                                                        *)
(***************************************************************************)
get_weather_wttr(location, http) ==
  LET data == Json(HttpGet(http, 1))
      current == Index0(Get(data, "current_condition", L(<<D(<<>>)>>)))
      cur(k) == Get(current, k, S("N/A"))
  IN Outcome(TryDict(MkDict(<<
       <<"location", S(location)>>,
       <<"temperature_c", cur("temp_C")>>,
       <<"temperature_f", cur("temp_F")>>,
       <<"condition", Get(Index0(Get(current, "weatherDesc", L(<<D(<<>>)>>))),
                          "value", S("N/A"))>>,
       <<"humidity", cur("humidity")>>,
       <<"wind_speed_kmph", cur("windspeedKmph")>>,
       <<"wind_speed_mph", cur("windspeedMiles")>>,
       <<"precipitation_mm", cur("precipMM")>>,
       <<"pressure_mb", cur("pressure")>>,
       <<"feels_like_c", cur("FeelsLikeC")>>,
       <<"feels_like_f", cur("FeelsLikeF")>>,
       <<"observation_time", cur("observation_time")>> >>)),
     <<Req("https://wttr.in/", 10)>>)

(***************************************************************************)
(* get_air_quality                                                         *)
(***************************************************************************)
aq_measurement(m) ==
  MkDict(<< <<"parameter", Get(m, "parameter", S("N/A"))>>,
            <<"value", Get(m, "value", S("N/A"))>>,
            <<"unit", Get(m, "unit", S("N/A"))>>,
            <<"last_updated", Get(m, "lastUpdated", S("N/A"))>> >>)

aq_location(result) ==
  MkDict(<< <<"location", Get(result, "location", S("N/A"))>>,
            <<"city", Get(result, "city", S("N/A"))>>,
            <<"country", Get(result, "country", S("N/A"))>>,
            <<"measurements", ListComp(Get(result, "measurements", L(<<>>)),
                                       aq_measurement)>> >>)

get_air_quality(location, http) ==
  LET data == Json(HttpGet(http, 1))
      found == Get(data, "results", None)
      results == ListComp(SliceV(found, 3), aq_location)
      value ==
        IF IsExc(found) THEN found
        ELSE IF Truthy(found)
        THEN MkDict(<< <<"city", S(location)>>,
                       <<"data", results>>,
                       <<"count", IF IsExc(results) THEN results ELSE I(LenV(results))>> >>)
        ELSE D(<< <<"message", S("No air quality data found for " \o location)>> >>)
  IN Outcome(TryDict(value), <<Req("https://api.openaq.org/v2/latest", 10)>>)

(***************************************************************************)
(* search_wikidata                                                         *)
(***************************************************************************)
wikidata_record(entity) ==
  MkDict(<< <<"id", Get(entity, "id", S(""))>>,
            <<"label", Get(entity, "label", S(""))>>,
            <<"description", Get(entity, "description", S(""))>>,
            <<"url", Fmt(<<S("https://www.wikidata.org/wiki/"), Get(entity, "id", S(""))>>)>>,
            <<"concepturi", Get(entity, "concepturi", S(""))>> >>)

search_wikidata(query, max_results, http) ==
  LET data == Json(HttpGet(http, 1)) IN
    Outcome(TryLoop(ForEach(Get(data, "search", L(<<>>)), wikidata_record)),
            <<Req("https://www.wikidata.org/w/api.php", 10)>>)

(***************************************************************************)
(* search_books                                                            *)
(***************************************************************************)
books_record(doc) ==
  MkDict(<< <<"title", Get(doc, "title", S("N/A"))>>,
            <<"authors", Get(doc, "author_name", L(<<S("Unknown")>>))>>,
            <<"first_publish_year", Get(doc, "first_publish_year", S("N/A"))>>,
            <<"publisher", Cond(Get(doc, "publisher", None),
                                Index0(Get(doc, "publisher", L(<<S("Unknown")>>))),
                                S("Unknown"))>>,
            <<"language", Cond(Get(doc, "language", None),
                               Index0(Get(doc, "language", L(<<S("en")>>))),
                               S("en"))>>,
            <<"subject", SliceV(Get(doc, "subject", L(<<>>)), 3)>>,
            <<"url", Cond(Get(doc, "key", None),
                          Fmt(<<S("https://openlibrary.org"), Get(doc, "key", S(""))>>),
                          S(""))>>,
            <<"cover_id", Get(doc, "cover_i", None)>>,
            <<"cover_url", Cond(Get(doc, "cover_i", None),
                                Fmt(<<S("https://covers.openlibrary.org/b/id/"),
                                      Get(doc, "cover_i", None), S("-M.jpg")>>),
                                None)>> >>)

search_books(query, max_results, http) ==
  LET data == Json(HttpGet(http, 1)) IN
    Outcome(TryLoop(ForEach(SliceV(Get(data, "docs", L(<<>>)), max_results), books_record)),
            <<Req("https://openlibrary.org/search.json", 10)>>)

(***************************************************************************)
(* search_pubmed.  The body of the second exchange is the parsed XML: the  *)
(* list of PubmedArticle elements, an element being the dict of the        *)
(* children the code looks for, a leaf element its text (None: no text).   *)
(***************************************************************************)
\* elem.find(path): the child, or None; None has no .find
Find(elem, k) ==
  IF IsExc(elem) THEN elem
  ELSE IF ~IsDict(elem) THEN Exc("AttributeError: 'NoneType' object has no attribute 'find'")
  ELSE Get(elem, k, None)

\* elem.findall(path): the list of the children, empty when there is none
FindAll(elem, k) ==
  IF IsExc(elem) THEN elem
  ELSE IF ~IsDict(elem) THEN Exc("AttributeError: 'NoneType' object has no attribute 'findall'")
  ELSE Get(elem, k, L(<<>>))

\* e.text if e is not None else dflt, for e = elem.find(k)
TextOr(elem, k, dflt) ==
  IF IsExc(Find(elem, k)) THEN Find(elem, k)
  ELSE IF HasKey(elem, k) THEN Lookup(elem, k) ELSE dflt

\* the name the loop appends for one Author element (None: it appends nothing)
pubmed_author(author_elem) ==
  IF IsExc(Find(author_elem, "LastName")) THEN Find(author_elem, "LastName")
  ELSE IF HasKey(author_elem, "LastName") /\ HasKey(author_elem, "ForeName")
       THEN Fmt(<<Lookup(author_elem, "ForeName"), S(" "), Lookup(author_elem, "LastName")>>)
  ELSE IF HasKey(author_elem, "LastName") THEN Lookup(author_elem, "LastName")
  ELSE None

\* Python: abstract[:500] + "..." if len(abstract) > 500 else abstract
pubmed_abstract(abstract) ==
  IF IsExc(abstract) THEN abstract
  ELSE IF ~(IsStr(abstract) \/ IsList(abstract) \/ IsDict(abstract))
       THEN Exc("TypeError: object of type 'NoneType' has no len()")
  ELSE IF LenV(abstract) > 500 THEN S(Slice(abstract.s, 500) \o "...") ELSE abstract

pubmed_record(article) ==
  LET article_elem == Find(article, "Article")
      title == TextOr(article_elem, "ArticleTitle", S("N/A"))
      abstract == TextOr(article_elem, "Abstract", S("No abstract available"))
      named == ListComp(FindAll(article_elem, "Author"), pubmed_author)
      authors == IF IsExc(named) THEN named
                 ELSE L(SelectSeq(named.l, LAMBDA a : ~IsNone(a)))
      pub_date_elem == Find(article_elem, "PubMedPubDate")
      year == IF IsExc(pub_date_elem) THEN pub_date_elem
              ELSE IF ~IsNone(pub_date_elem) /\ HasKey(pub_date_elem, "Year")
                   THEN Lookup(pub_date_elem, "Year") ELSE S("N/A")
      pmid == TextOr(article, "PMID", S(""))
  IN MkDict(<< <<"title", title>>,
               <<"abstract", pubmed_abstract(abstract)>>,
               <<"authors", SliceV(authors, 5)>>,
               <<"year", year>>,
               <<"pmid", pmid>>,
               <<"url", Cond(pmid, Fmt(<<S("https://pubmed.ncbi.nlm.nih.gov/"), pmid, S("/")>>),
                             S(""))>> >>)

\* ET.fromstring(fetch_response.content)
FromString(response) ==
  IF IsExc(response) THEN response
  ELSE IF "malformed" \in DOMAIN response.body THEN Exc("ParseError: syntax error")
  ELSE response.body

\* search_pubmed without the early return of lines 391-392
search_pubmed_fetch_anyway(query, max_results, http) ==
  LET search_data == Json(HttpGet(http, 1))
      ids == Get(Get(search_data, "esearchresult", D(<<>>)), "idlist", L(<<>>))
      joined == JoinV(",", ids)
      root == FromString(HttpGet(http, 2))
      esearch == Req("https://eutils.ncbi.nlm.nih.gov/entrez/eutils/esearch.fcgi", 10)
      efetch == Req("https://eutils.ncbi.nlm.nih.gov/entrez/eutils/efetch.fcgi", 10)
  IN IF IsExc(ids) THEN Outcome(except_list(ids, <<>>), <<esearch>>)
     ELSE IF IsExc(joined) THEN Outcome(except_list(joined, <<>>), <<esearch>>)
     ELSE Outcome(TryLoop(ForEach(root, pubmed_record)), <<esearch, efetch>>)

search_pubmed(query, max_results, http) ==
  LET search_data == Json(HttpGet(http, 1))
      ids == Get(Get(search_data, "esearchresult", D(<<>>)), "idlist", L(<<>>))
      joined == JoinV(",", ids)
      root == FromString(HttpGet(http, 2))
      esearch == Req("https://eutils.ncbi.nlm.nih.gov/entrez/eutils/esearch.fcgi", 10)
      efetch == Req("https://eutils.ncbi.nlm.nih.gov/entrez/eutils/efetch.fcgi", 10)
  IN IF IsExc(ids) THEN Outcome(except_list(ids, <<>>), <<esearch>>)
     ELSE IF ~Truthy(ids)
          THEN Outcome(L(<<D(<< <<"message", S("No articles found")>> >>)>>), <<esearch>>)
     ELSE IF IsExc(joined) THEN Outcome(except_list(joined, <<>>), <<esearch>>)
     ELSE Outcome(TryLoop(ForEach(root, pubmed_record)), <<esearch, efetch>>)

(***************************************************************************)
(* geocode_location                                                        *)
(***************************************************************************)
geocode_location(location, http) ==
  LET data == Json(HttpGet(http, 1))
      result == Index0(data)
      g(k) == Get(result, k, S("N/A"))
      value ==
        IF IsExc(data) THEN data
        ELSE IF Truthy(data) /\ (IsInt(data) \/ IsBool(data))
             THEN Exc("TypeError: object has no len()")
        ELSE IF Truthy(data) /\ LenV(data) > 0 THEN
          MkDict(<< <<"display_name", g("display_name")>>,
                    <<"latitude", g("lat")>>,
                    <<"longitude", g("lon")>>,
                    <<"type", g("type")>>,
                    <<"category", g("category")>>,
                    <<"importance", g("importance")>>,
                    <<"osm_id", g("osm_id")>>,
                    <<"osm_type", g("osm_type")>>,
                    <<"osm_url", Fmt(<<S("https://www.openstreetmap.org/"),
                                       Get(result, "osm_type", S("")), S("/"),
                                       Get(result, "osm_id", S(""))>>)>>,
                    <<"address", Get(result, "address", D(<<>>))>> >>)
        ELSE D(<< <<"message", S("Location '" \o location \o "' not found")>> >>)
  IN Outcome(TryDict(value), <<Req("https://nominatim.openstreetmap.org/search", 10)>>)

(***************************************************************************)
(* get_definition                                                          *)
(***************************************************************************)
\* Python: k in v
InOp(k, v) ==
  IF IsDict(v) THEN HasKey(v, k)
  ELSE IF IsStr(v) THEN Contains(k, v.s)
  ELSE IF IsList(v) THEN \E i \in DOMAIN v.l : v.l[i] = S(k)
  ELSE FALSE

\* the text the loop appends for one phonetic (None: it appends nothing)
dict_phonetic(phonetic) ==
  Cond(Get(phonetic, "text", None), Item(phonetic, "text"), None)

dict_definition(definition) ==
  MkDict(<< <<"definition", Get(definition, "definition", S(""))>>,
            <<"example", Get(definition, "example", S(""))>> >>)

dict_meaning(meaning) ==
  MkDict(<< <<"part_of_speech", Get(meaning, "partOfSpeech", S(""))>>,
            <<"definitions", ListComp(Get(meaning, "definitions", L(<<>>)),
                                      dict_definition)>> >>)

dict_entry(word, word_data) ==
  LET texts == ListComp(Item(word_data, "phonetics"), dict_phonetic)
      phonetics ==
        IF ~InOp("phonetics", word_data) THEN L(<<>>)
        ELSE IF IsExc(texts) THEN texts
        ELSE L(SelectSeq(texts.l, LAMBDA t : ~IsNone(t)))
      meanings ==
        IF ~InOp("meanings", word_data) THEN L(<<>>)
        ELSE ListComp(Item(word_data, "meanings"), dict_meaning)
  IN IF ~(IsDict(word_data) \/ IsStr(word_data) \/ IsList(word_data))
     THEN Exc("TypeError: argument is not iterable")
     ELSE MkDict(<< <<"word", Get(word_data, "word", S(word))>>,
                    <<"phonetics", phonetics>>,
                    <<"meanings", meanings>>,
                    <<"license", Get(word_data, "license", D(<<>>))>>,
                    <<"source_urls", Get(word_data, "sourceUrls", L(<<>>))>> >>)

get_definition(word, http) ==
  LET response == HttpGet(http, 1)
      data == Json(response)
      value ==
        IF IsExc(response) THEN response
        ELSE IF response.status = 404
             THEN D(<< <<"error", S("Word '" \o word \o "' not found in dictionary")>> >>)
        ELSE IF IsExc(data) THEN data
        ELSE IF IsList(data) /\ LenV(data) > 0 THEN dict_entry(word, data.l[1])
        ELSE D(<< <<"error", S("Invalid response from dictionary API")>> >>)
  IN Outcome(TryDict(value), <<Req("https://api.dictionaryapi.dev/api/v2/entries/en/", 10)>>)

(***************************************************************************)
(* search_country                                                          *)
(***************************************************************************)
\* Python: list(d.values())
Values(v) ==
  IF IsExc(v) THEN v
  ELSE IF ~IsDict(v) THEN Exc("AttributeError: no attribute 'values'")
  ELSE L([i \in DOMAIN v.d |-> v.d[i][2]])

\* for curr_code, curr_info in country["currencies"].items(): ... one appended text
country_currency(v, i) ==
  Fmt(<<Get(v.d[i][2], "name", S("")), S(" ("), S(v.d[i][1]), S(")")>>)

country_currencies(country) ==
  LET v == Item(country, "currencies")
      texts == [i \in DOMAIN v.d |-> country_currency(v, i)]
  IN IF ~InOp("currencies", country) THEN L(<<>>)
     ELSE IF IsExc(v) THEN v
     ELSE IF ~IsDict(v) THEN Exc("AttributeError: no attribute 'items'")
     ELSE IF AnyExc(texts) THEN FirstExc(texts) ELSE L(texts)

country_entry(country) ==
  LET name == Get(country, "name", D(<<>>)) IN
    IF ~(IsDict(country) \/ IsStr(country) \/ IsList(country))
    THEN Exc("TypeError: argument is not iterable")
    ELSE MkDict(<<
      <<"name", Get(name, "common", S("N/A"))>>,
      <<"official_name", Get(name, "official", S("N/A"))>>,
      <<"capital", Cond(Get(country, "capital", None),
                        Index0(Get(country, "capital", L(<<S("N/A")>>))), S("N/A"))>>,
      <<"region", Get(country, "region", S("N/A"))>>,
      <<"subregion", Get(country, "subregion", S("N/A"))>>,
      <<"population", Get(country, "population", S("N/A"))>>,
      <<"area", Get(country, "area", S("N/A"))>>,
      <<"languages", IF InOp("languages", country)
                     THEN Values(Item(country, "languages")) ELSE L(<<>>)>>,
      <<"currencies", country_currencies(country)>>,
      <<"timezones", Get(country, "timezones", L(<<>>))>>,
      <<"flag_emoji", Get(country, "flag", S("UN"))>>,
      <<"flag_url", Get(Get(country, "flags", D(<<>>)), "png", S(""))>>,
      <<"coat_of_arms", Get(Get(country, "coatOfArms", D(<<>>)), "png", S(""))>>,
      <<"map_url", Get(Get(country, "maps", D(<<>>)), "googleMaps", S(""))>> >>)

search_country(query, http) ==
  LET first == HttpGet(http, 1)
      again == ~IsExc(first) /\ first.status = 404
      response == IF again THEN HttpGet(http, 2) ELSE first
      data == Json(response)
      url == "https://restcountries.com/v3.1/name/"
      value ==
        IF IsExc(response) THEN response
        ELSE IF response.status # 200
             THEN D(<< <<"error", S("Country '" \o query \o "' not found")>> >>)
        ELSE IF IsExc(data) THEN data
        ELSE IF Truthy(data) /\ (IsInt(data) \/ IsBool(data))
             THEN Exc("TypeError: object has no len()")
        ELSE IF Truthy(data) /\ LenV(data) > 0 THEN country_entry(Index0(data))
        ELSE D(<< <<"error", S("No country data found")>> >>)
  IN Outcome(TryDict(value),
             IF again THEN <<Req(url, 10), Req(url, 10)>> ELSE <<Req(url, 10)>>)

(***************************************************************************)
(* search_quotes                                                           *)
(***************************************************************************)
quotes_record(quote) ==
  MkDict(<< <<"content", Get(quote, "content", S(""))>>,
            <<"author", Get(quote, "author", S("Unknown"))>>,
            <<"tags", Get(quote, "tags", L(<<>>))>>,
            <<"length", Get(quote, "length", I(0))>>,
            <<"date_added", Get(quote, "dateAdded", S(""))>>,
            <<"date_modified", Get(quote, "dateModified", S(""))>> >>)

quotes_random_record(quote) ==
  MkDict(<< <<"content", Get(quote, "content", S(""))>>,
            <<"author", Get(quote, "author", S("Unknown"))>>,
            <<"tags", Get(quote, "tags", L(<<>>))>>,
            <<"length", Get(quote, "length", I(0))>> >>)

search_quotes(query, max_results, http) ==
  LET data == Json(HttpGet(http, 1))
      searched == ForEach(SliceV(Get(data, "results", L(<<>>)), max_results), quotes_record)
      random_quotes == Json(HttpGet(http, 2))
      search == Req("https://api.quotable.io/search/quotes", 10)
      random == Req("https://api.quotable.io/quotes/random", 10)
  IN IF IsExc(searched.exc) \/ searched.acc # <<>>
     THEN Outcome(TryLoop(searched), <<search>>)
     ELSE \* If no search results, get random quotes
          Outcome(TryLoop(ForEach(SliceV(random_quotes, max_results), quotes_random_record)),
                  <<search, random>>)

(***************************************************************************)
(* search_github_repos                                                     *)
(***************************************************************************)
github_record(repo) ==
  MkDict(<< <<"name", Get(repo, "name", S("N/A"))>>,
            <<"full_name", Get(repo, "full_name", S("N/A"))>>,
            <<"description", Get(repo, "description", S("No description"))>>,
            <<"url", Get(repo, "html_url", S(""))>>,
            <<"stars", Get(repo, "stargazers_count", I(0))>>,
            <<"forks", Get(repo, "forks_count", I(0))>>,
            <<"language", Get(repo, "language", S("N/A"))>>,
            <<"license", Cond(Get(repo, "license", None),
                              Get(Get(repo, "license", D(<<>>)), "name", S("No license")),
                              S("No license"))>>,
            <<"created_at", Get(repo, "created_at", S(""))>>,
            <<"updated_at", Get(repo, "updated_at", S(""))>>,
            <<"owner", Cond(Get(repo, "owner", None),
                            Get(Get(repo, "owner", D(<<>>)), "login", S("N/A")),
                            S("N/A"))>> >>)

search_github_repos(query, max_results, http) ==
  LET response == HttpGet(http, 1)
      data == Json(response)
      request == <<Req("https://api.github.com/search/repositories", 10)>>
  IN IF IsExc(response) THEN Outcome(except_list(response, <<>>), request)
     ELSE IF response.status = 403
          THEN Outcome(L(<<D(<< <<"error",
                     S("GitHub API rate limit exceeded. Try again later.")>> >>)>>), request)
     ELSE Outcome(TryLoop(ForEach(SliceV(Get(data, "items", L(<<>>)), max_results),
                                  github_record)), request)

(***************************************************************************)
(* search_stackoverflow                                                    *)
(***************************************************************************)
stackoverflow_record(question) ==
  MkDict(<< <<"question_id", Get(question, "question_id", S(""))>>,
            <<"title", Get(question, "title", S(""))>>,
            <<"is_answered", Get(question, "is_answered", B(FALSE))>>,
            <<"view_count", Get(question, "view_count", I(0))>>,
            <<"answer_count", Get(question, "answer_count", I(0))>>,
            <<"score", Get(question, "score", I(0))>>,
            <<"tags", Get(question, "tags", L(<<>>))>>,
            <<"link", Get(question, "link", S(""))>>,
            <<"url", Get(question, "link", S(""))>>,
            <<"owner", Cond(Get(question, "owner", None),
                            Get(Get(question, "owner", D(<<>>)), "display_name", S("Anonymous")),
                            S("Anonymous"))>>,
            <<"creation_date", Get(question, "creation_date", I(0))>> >>)

search_stackoverflow(query, max_results, http) ==
  LET data == Json(HttpGet(http, 1)) IN
    Outcome(TryLoop(ForEach(SliceV(Get(data, "items", L(<<>>)), max_results),
                            stackoverflow_record)),
            <<Req("https://api.stackexchange.com/2.3/search", 10)>>)

(***************************************************************************)
(* The worlds an adapter can meet: the exchanges of its GETs, drawn from   *)
(* the statuses and bodies the service can answer with.  An item of a body *)
(* is complete, has the word "error" in a text field, is an empty object,  *)
(* has its fields present but null, or is not an object at all.            *)
(***************************************************************************)
SeqsUpTo(V, n) == UNION {[1..k -> V] : k \in 0..n}

ErrBody == D(<< <<"message", S("Not Found")>> >>)

\* the exchanges of one GET whose 200 answers carry one of `bodies`
Exchanges(bodies) ==
  {NetErr("Connection timed out")}
    \cup {Resp(200, b) : b \in bodies \cup {Malformed}}
    \cup {Resp(st, b) : st \in {403, 404, 500}, b \in {ErrBody, Malformed}}

\* the bodies {key: [items]} of a JSON search API, and the shapes it breaks in
ItemBodies(key, variants) ==
  {D(<< <<key, L(items)>> >>) : items \in SeqsUpTo(variants, MaxItems)}
    \cup {D(<<>>), D(<< <<key, None>> >>), L(<<>>), None}

\* the bodies [items] of a JSON API that answers with a list
ListBodies(variants) ==
  {L(items) : items \in SeqsUpTo(variants, MaxItems)} \cup {ErrBody, None}

Sparse == D(<<>>)
NotAnObject == S("oops")

Queries == {"", "  ", "paris france"}

ArxivPaper(title, published) ==
  D(<< <<"title", S(title)>>, <<"authors", L(<<D(<< <<"name", S("A. Author")>> >>)>>)>>,
       <<"summary", S("We study things.")>>, <<"published", published>>,
       <<"entry_id", S("http://arxiv.org/abs/1")>>, <<"pdf_url", S("http://arxiv.org/pdf/1")>>,
       <<"categories", L(<<S("cs.AI")>>)>>, <<"doi", None>> >>)

\* s, n times over
RECURSIVE Repeat(_, _)
Repeat(s, n) ==
  IF n = 0 THEN "" ELSE IF n = 1 THEN s
  ELSE Repeat(s, n \div 2) \o Repeat(s, n - n \div 2)

\* an upstream text of 1200 characters
Oversized == Repeat("lorem ipsum ", 100)

\* a paper whose summary is oversized
LongPaper ==
  D(<< <<"title", S("Long read")>>, <<"authors", L(<<>>)>>, <<"summary", S(Oversized)>>,
       <<"published", S("2021-05-05")>>, <<"entry_id", S("http://arxiv.org/abs/2")>>,
       <<"pdf_url", S("http://arxiv.org/pdf/2")>>, <<"categories", L(<<>>)>>,
       <<"doi", None>> >>)

ArxivWorlds ==
  {[papers |-> ps, fail |-> f] :
     ps \in SeqsUpTo({ArxivPaper("Deep nets", S("2020-01-01")),
                      ArxivPaper("Bounds on the error", None), LongPaper, Sparse}, MaxItems),
     f \in 0..(MaxItems + 1)}

ParisTopic ==
  D(<< <<"Text", S("Paris - capital of France")>>, <<"FirstURL", S("https://d.co/p")>> >>)

DdgTopics ==
  {ParisTopic,
   D(<< <<"Text", S("error codes")>>, <<"FirstURL", S("https://d.co/e")>> >>),
   D(<< <<"Text", None>>, <<"FirstURL", None>> >>),
   S("Lyon - a city - in France"), Sparse}

DdgBody(a, ts) ==
  D(<< <<"AbstractText", a>>, <<"Heading", S("Paris")>>, <<"AbstractURL", S("https://d.co/a")>>,
       <<"RelatedTopics", L(ts)>> >>)

DdgBodies ==
  {DdgBody(a, ts) : a \in {S(""), S("Paris is a city.")}, ts \in SeqsUpTo(DdgTopics, MaxItems)}
    \cup {D(<<>>), D(<< <<"RelatedTopics", None>> >>), L(<<>>), None}

DdgWorlds == {<<x>> : x \in Exchanges(DdgBodies)}

NewsBody(ts, sn) == D(<< <<"titles", L(ts)>>, <<"snippets", L(sn)>> >>)

NewsBodies ==
  {NewsBody(ts, sn) :
     ts \in SeqsUpTo({S("Paris today"), S("error in the vote")}, MaxItems),
     sn \in SeqsUpTo({S("It rained.")}, MaxItems)}

NewsWorlds ==
  {<<x, y>> : x \in Exchanges(NewsBodies),
              y \in Exchanges({b \in DdgBodies : ~HasKey(b, "AbstractText")
                                                  \/ Lookup(b, "AbstractText") = S("")})}

WikiPage(summary) ==
  D(<< <<"title", S("Paris")>>, <<"summary", S(summary)>>,
       <<"url", S("https://en.wikipedia.org/wiki/Paris")>>,
       <<"categories", L(<<S("Capitals")>>)>>, <<"content", S("Paris is ...")>> >>)

WikipediaWorlds ==
  {[search |-> sr, page |-> pg] :
     sr \in {NetErr("Connection timed out"), L(<<>>), L(<<S("Paris")>>)},
     pg \in {NetErr("Connection timed out"), PageError, WikiPage("Paris is the capital."),
             WikiPage("An error of judgement."), D(<< <<"title", S("Paris")>> >>),
             Disambiguation(L(<<S("Paris, Texas"), S("Paris (film)")>>)),
             Disambiguation(L(<<>>))}}

WeatherCurrent(temp) ==
  D(<< <<"temp_C", temp>>, <<"temp_F", S("64")>>,
       <<"weatherDesc", L(<<D(<< <<"value", S("Cloudy")>> >>)>>)>>, <<"humidity", S("70")>> >>)

WeatherBodies ==
  {D(<< <<"current_condition", L(cs)>> >>) :
     cs \in SeqsUpTo({WeatherCurrent(S("18")), WeatherCurrent(None), Sparse,
                      D(<< <<"weatherDesc", L(<<>>)>> >>), NotAnObject}, MaxItems)}
    \cup {D(<<>>), D(<< <<"current_condition", None>> >>), L(<<>>), None}

WeatherWorlds == {<<x>> : x \in Exchanges(WeatherBodies)}

AqMeasurement == D(<< <<"parameter", S("pm25")>>, <<"value", I(12)>>, <<"unit", S("ug/m3")>> >>)

ParisStation ==
  D(<< <<"location", S("Paris Centre")>>, <<"city", S("Paris")>>, <<"country", S("FR")>>,
       <<"measurements", L(<<AqMeasurement, Sparse>>)>> >>)

AqLocations ==
  {ParisStation,
   D(<< <<"location", None>>, <<"measurements", None>> >>),
   D(<< <<"measurements", L(<<NotAnObject>>)>> >>), Sparse, NotAnObject}

AirQualityWorlds == {<<x>> : x \in Exchanges(ItemBodies("results", AqLocations))}

ParisEntity ==
  D(<< <<"id", S("Q90")>>, <<"label", S("Paris")>>, <<"description", S("capital of France")>>,
       <<"concepturi", S("http://www.wikidata.org/entity/Q90")>> >>)

WikidataEntities ==
  {ParisEntity,
   D(<< <<"id", S("Q1")>>, <<"label", S("error")>>, <<"description", S("a mistake")>> >>),
   D(<< <<"id", None>>, <<"label", None>>, <<"description", None>> >>),
   Sparse, NotAnObject}

WikidataWorlds == {<<x>> : x \in Exchanges(ItemBodies("search", WikidataEntities))}

DickensBook ==
  D(<< <<"title", S("A Tale of Two Cities")>>, <<"author_name", L(<<S("Charles Dickens")>>)>>,
       <<"first_publish_year", I(1859)>>, <<"publisher", L(<<S("Chapman")>>)>>,
       <<"language", L(<<S("eng")>>)>>, <<"subject", L(<<S("Fiction")>>)>>,
       <<"key", S("/works/OL1W")>>, <<"cover_i", I(42)>> >>)

BooksDocs ==
  {DickensBook,
   D(<< <<"title", S("Trial and error")>>, <<"key", S("/works/OL2W")>> >>),
   D(<< <<"title", None>>, <<"author_name", None>>, <<"publisher", None>>,
        <<"subject", None>> >>),
   Sparse, NotAnObject}

BooksWorlds == {<<x>> : x \in Exchanges(ItemBodies("docs", BooksDocs))}

PubmedIds(ids) == D(<< <<"esearchresult", D(<< <<"idlist", ids>> >>)>> >>)

PubmedIdBodies ==
  {PubmedIds(ids) :
     ids \in {L(<<>>), L(<<S("31"), S("32")>>), None, L(<<I(31)>>)}}
    \cup {D(<<>>), D(<< <<"esearchresult", None>> >>), L(<<>>)}

AspirinArticle ==
  D(<< <<"Article", D(<< <<"ArticleTitle", S("Aspirin and the heart")>>,
                         <<"Abstract", S("Background. Methods. Results.")>>,
                         <<"Author", L(<<D(<< <<"LastName", S("Roe")>>,
                                              <<"ForeName", S("Jane")>> >>),
                                         D(<< <<"LastName", S("Doe")>> >>), Sparse>>)>>,
                         <<"PubMedPubDate", D(<< <<"Year", S("2021")>> >>)>> >>)>>,
       <<"PMID", S("31")>> >>)

PubmedArticles ==
  {AspirinArticle,
   D(<< <<"Article", D(<< <<"ArticleTitle", S("Medication error rates")>> >>)>> >>),
   D(<< <<"Article", D(<< <<"ArticleTitle", None>>, <<"Abstract", None>> >>)>>,
        <<"PMID", S("32")>> >>),
   D(<< <<"PMID", S("33")>> >>)}

PubmedWorlds ==
  {<<x, y>> : x \in Exchanges(PubmedIdBodies),
              y \in Exchanges({L(as) : as \in SeqsUpTo(PubmedArticles, MaxItems)})}

ParisPlace ==
  D(<< <<"display_name", S("Paris, France")>>, <<"lat", S("48.85")>>, <<"lon", S("2.35")>>,
       <<"osm_type", S("relation")>>, <<"osm_id", I(7444)>> >>)

GeoPlaces ==
  {ParisPlace,
   D(<< <<"display_name", None>>, <<"lat", None>> >>), Sparse, NotAnObject}

GeocodingWorlds == {<<x>> : x \in Exchanges(ListBodies(GeoPlaces))}

ParisEntry ==
  D(<< <<"word", S("paris")>>,
       <<"phonetics", L(<<D(<< <<"text", S("/paris/")>> >>), Sparse>>)>>,
       <<"meanings", L(<<D(<< <<"partOfSpeech", S("noun")>>,
                              <<"definitions", L(<<D(<< <<"definition", S("a plant")>>,
                                                        <<"example", S("herb paris")>> >>),
                                                   Sparse>>)>> >>)>>)>> >>)

DictEntries ==
  {ParisEntry,
   D(<< <<"word", None>>, <<"phonetics", None>> >>),
   D(<< <<"meanings", L(<<NotAnObject>>)>> >>), Sparse, NotAnObject}

DictionaryWorlds == {<<x>> : x \in Exchanges(ListBodies(DictEntries))}

France ==
  D(<< <<"name", D(<< <<"common", S("France")>>, <<"official", S("French Republic")>> >>)>>,
       <<"capital", L(<<S("Paris")>>)>>, <<"region", S("Europe")>>,
       <<"population", I(67391582)>>, <<"languages", D(<< <<"fra", S("French")>> >>)>>,
       <<"currencies", D(<< <<"EUR", D(<< <<"name", S("Euro")>> >>)>> >>)>>,
       <<"maps", D(<< <<"googleMaps", S("https://goo.gl/maps/x")>> >>)>> >>)

Countries ==
  {France,
   D(<< <<"name", None>>, <<"capital", None>> >>),
   D(<< <<"name", D(<< <<"common", None>> >>)>>, <<"languages", None>>,
        <<"currencies", D(<< <<"EUR", None>> >>)>> >>),
   Sparse, NotAnObject}

CountryWorlds ==
  {<<x, y>> : x \in Exchanges(ListBodies(Countries)), y \in Exchanges(ListBodies(Countries))}

ParisQuote ==
  D(<< <<"content", S("Paris is always a good idea.")>>, <<"author", S("A. Hepburn")>>,
       <<"tags", L(<<S("travel")>>)>>, <<"length", I(28)>> >>)

QuoteItems ==
  {ParisQuote,
   D(<< <<"content", S("To err is human; error is not.")>> >>),
   D(<< <<"content", None>>, <<"author", None>> >>), Sparse, NotAnObject}

QuotesWorlds ==
  {<<x, y>> : x \in Exchanges(ItemBodies("results", QuoteItems)),
              y \in Exchanges(ListBodies(QuoteItems))}

ParisRepo ==
  D(<< <<"name", S("paris")>>, <<"full_name", S("ann/paris")>>,
       <<"description", S("Maps of Paris")>>, <<"html_url", S("https://github.com/ann/paris")>>,
       <<"stargazers_count", I(1234)>>, <<"forks_count", I(56)>>, <<"language", S("Python")>>,
       <<"license", D(<< <<"name", S("MIT License")>> >>)>>,
       <<"owner", D(<< <<"login", S("ann")>> >>)>> >>)

GithubRepos ==
  {ParisRepo,
   D(<< <<"name", S("errors")>>, <<"description", S("error handling")>> >>),
   D(<< <<"name", S("bare")>>, <<"description", None>>, <<"language", None>>,
        <<"license", None>>, <<"owner", None>> >>),
   Sparse, NotAnObject}

GithubWorlds == {<<x>> : x \in Exchanges(ItemBodies("items", GithubRepos))}

JsonQuestion ==
  D(<< <<"question_id", I(11)>>, <<"title", S("How to parse JSON")>>,
       <<"is_answered", B(TRUE)>>, <<"view_count", I(1500)>>, <<"answer_count", I(2)>>,
       <<"score", I(7)>>, <<"tags", L(<<S("python"), S("json")>>)>>,
       <<"link", S("https://stackoverflow.com/q/11")>>,
       <<"owner", D(<< <<"display_name", S("ann")>> >>)>> >>)

StackQuestions ==
  {JsonQuestion,
   D(<< <<"question_id", I(12)>>, <<"title", S("How to fix this error")>>,
        <<"link", S("https://stackoverflow.com/q/12")>> >>),
   D(<< <<"title", None>>, <<"tags", None>>, <<"owner", None>>, <<"view_count", None>> >>),
   Sparse, NotAnObject}

StackoverflowWorlds == {<<x>> : x \in Exchanges(ItemBodies("items", StackQuestions))}

(***************************************************************************)
(* The environment of one run of search_all_sources gives every source one *)
(* of four kinds of outcome: "up" (the service answers with one item),     *)
(* "empty" (it answers with no item), "down" (every request fails), and    *)
(* "fault" (the worker raises outside the adapter's own try block, as a    *)
(* MemoryError does when the call is made).                                *)
(***************************************************************************)
OkItems(key, items) == Resp(200, D(<< <<key, L(items)>> >>))
OkList(items) == Resp(200, L(items))
Down == NetErr("Connection timed out")

UpWorld(name) ==
  CASE name = "arxiv" -> [papers |-> <<ArxivPaper("Deep nets", S("2020-01-01"))>>, fail |-> 0]
    [] name \in {"duckduckgo", "duckduckgo_instant"} ->
         <<Resp(200, DdgBody(S("Paris is a city."), <<ParisTopic>>))>>
    [] name = "news" -> <<Resp(200, NewsBody(<<S("Paris today")>>, <<S("It rained.")>>)), Down>>
    [] name = "wikipedia" ->
         [search |-> L(<<S("Paris")>>), page |-> WikiPage("Paris is the capital.")]
    [] name = "weather" -> <<OkItems("current_condition", <<WeatherCurrent(S("18"))>>)>>
    [] name = "air_quality" -> <<OkItems("results", <<ParisStation>>)>>
    [] name = "wikidata" -> <<OkItems("search", <<ParisEntity>>)>>
    [] name = "books" -> <<OkItems("docs", <<DickensBook>>)>>
    [] name = "pubmed" ->
         <<Resp(200, PubmedIds(L(<<S("31"), S("32")>>))), OkList(<<AspirinArticle>>)>>
    [] name = "geocoding" -> <<OkList(<<ParisPlace>>)>>
    [] name = "dictionary" -> <<OkList(<<ParisEntry>>)>>
    [] name = "country" -> <<OkList(<<France>>), Down>>
    [] name = "quotes" -> <<OkItems("results", <<ParisQuote>>), Down>>
    [] name = "github" -> <<OkItems("items", <<ParisRepo>>)>>
    [] name = "stackoverflow" -> <<OkItems("items", <<JsonQuestion>>)>>

EmptyWorld(name) ==
  CASE name = "arxiv" -> [papers |-> <<>>, fail |-> 0]
    [] name \in {"duckduckgo", "duckduckgo_instant"} -> <<Resp(200, D(<<>>))>>
    [] name = "news" -> <<Resp(200, NewsBody(<<>>, <<>>)), Resp(200, D(<<>>))>>
    [] name = "wikipedia" -> [search |-> L(<<>>), page |-> PageError]
    [] name = "weather" -> <<Resp(200, D(<<>>))>>
    [] name = "air_quality" -> <<OkItems("results", <<>>)>>
    [] name = "wikidata" -> <<OkItems("search", <<>>)>>
    [] name = "books" -> <<OkItems("docs", <<>>)>>
    [] name = "pubmed" -> <<Resp(200, PubmedIds(L(<<>>))), OkList(<<>>)>>
    [] name = "geocoding" -> <<OkList(<<>>)>>
    [] name = "dictionary" -> <<OkList(<<>>)>>
    [] name = "country" -> <<OkList(<<>>), OkList(<<>>)>>
    [] name = "quotes" -> <<OkItems("results", <<>>), OkList(<<>>)>>
    [] name = "github" -> <<OkItems("items", <<>>)>>
    [] name = "stackoverflow" -> <<OkItems("items", <<>>)>>

DownWorld(name) ==
  CASE name = "arxiv" -> [papers |-> <<>>, fail |-> 1]
    [] name = "wikipedia" -> [search |-> Down, page |-> Down]
    [] name \in {"news", "pubmed", "country", "quotes"} -> <<Down, Down>>
    [] OTHER -> <<Down>>

Kinds == {"up", "empty", "down", "fault"}

\* the world an adapter meets in an environment of kind `kind`
KindWorld(name, kind) ==
  CASE kind = "up" -> UpWorld(name)
    [] kind = "empty" -> EmptyWorld(name)
    [] kind = "down" -> DownWorld(name)

(***************************************************************************)
(* search_all_sources: the sixteen tasks, in the order they are submitted. *)
(***************************************************************************)
Sources ==
  << "arxiv", "duckduckgo", "duckduckgo_instant", "news", "wikipedia", "weather",
     "air_quality", "wikidata", "books", "pubmed", "geocoding", "dictionary",
     "country", "quotes", "github", "stackoverflow" >>

SourceNames == Range(Sources)

Idx(name) == CHOOSE i \in DOMAIN Sources : Sources[i] = name

\* Python: query.split()[0]
SplitFirst(query) ==
  IF Split(query) = <<>> THEN Exc("IndexError: list index out of range")
  ELSE S(Split(query)[1])

\* the first word taken without the guard on an empty query
first_word_unguarded(query) == SplitFirst(query)

\* first_word = query.split()[0] if query.strip() else query
first_word(query) == IF Strip(query) # "" THEN SplitFirst(query) ELSE S(query)

\* func(*args) of the task `name`: the adapter with the arguments of its submit line
RunAdapter(name, query, world) ==
  CASE name = "arxiv" -> search_arxiv(query, 3, world)
    [] name = "duckduckgo" -> search_duckduckgo(query, 5, world)
    [] name = "duckduckgo_instant" -> get_instant_answer(query, world)
    [] name = "news" -> search_news(query, 3, world)
    [] name = "wikipedia" -> search_wikipedia(query, world)
    [] name = "weather" -> get_weather_wttr(query, world)
    [] name = "air_quality" -> get_air_quality(query, world)
    [] name = "wikidata" -> search_wikidata(query, 3, world)
    [] name = "books" -> search_books(query, 5, world)
    [] name = "pubmed" -> search_pubmed(query, 3, world)
    [] name = "geocoding" -> geocode_location(query, world)
    [] name = "dictionary" -> get_definition(first_word(query).s, world)
    [] name = "country" -> search_country(query, world)
    [] name = "quotes" -> search_quotes(query, 3, world)
    [] name = "github" -> search_github_repos(query, 3, world)
    [] name = "stackoverflow" -> search_stackoverflow(query, 3, world)

\* the worlds the adapter of `name` can meet
Worlds(name) ==
  CASE name = "arxiv" -> ArxivWorlds
    [] name = "duckduckgo" -> DdgWorlds
    [] name = "duckduckgo_instant" -> DdgWorlds
    [] name = "news" -> NewsWorlds
    [] name = "wikipedia" -> WikipediaWorlds
    [] name = "weather" -> WeatherWorlds
    [] name = "air_quality" -> AirQualityWorlds
    [] name = "wikidata" -> WikidataWorlds
    [] name = "books" -> BooksWorlds
    [] name = "pubmed" -> PubmedWorlds
    [] name = "geocoding" -> GeocodingWorlds
    [] name = "dictionary" -> DictionaryWorlds
    [] name = "country" -> CountryWorlds
    [] name = "quotes" -> QuotesWorlds
    [] name = "github" -> GithubWorlds
    [] name = "stackoverflow" -> StackoverflowWorlds

\* Python: d[k] = v on a dict: a new key goes last, a known key keeps its place
DictSet(dv, k, v) ==
  IF HasKey(dv, k)
  THEN D([i \in DOMAIN dv.d |-> IF dv.d[i][1] = k THEN <<k, v>> ELSE dv.d[i]])
  ELSE D(Append(dv.d, <<k, v>>))

Keys(dv) == {dv.d[i][1] : i \in DOMAIN dv.d}

\* a wrapper that files an exception under a name of its own
safe_search_untagged(name, r) ==
  IF IsExc(r) THEN [name |-> "error", data |-> D(<< <<"error", S(r.exc)>> >>)]
  ELSE [name |-> name, data |-> r]

\* a wrapper that tags every pair with the same key
safe_search_one_key(name, r) ==
  IF IsExc(r) THEN [name |-> "result", data |-> D(<< <<"error", S(r.exc)>> >>)]
  ELSE [name |-> "result", data |-> r]

\* safe_search(name, func, *args): r is what func(*args) returned or raised
safe_search(name, r) ==
  IF IsExc(r) THEN [name |-> name, data |-> D(<< <<"error", S(r.exc)>> >>)]
  ELSE [name |-> name, data |-> r]

(***************************************************************************)
(* format_results.  `output` is the list of lines the function appends to; *)
(* a line is a str, or the exception its expression raised (the function   *)
(* then raises it and returns nothing).  The emoji of the section headers  *)
(* are left out of the header texts.                                       *)
(***************************************************************************)
RECURSIVE Flat(_)
\* the lists ss, one after the other
Flat(ss) ==
  IF ss = <<>> THEN <<>>
  ELSE IF Len(ss) = 1 THEN ss[1]
  ELSE LET half == Len(ss) \div 2 IN
         Flat(SubSeq(ss, 1, half)) \o Flat(SubSeq(ss, half + 1, Len(ss)))

\* if c: <lines>
When(c, lines) == IF IsExc(c) THEN <<c>> ELSE IF Truthy(c) THEN lines ELSE <<>>

\* for x in v: <the lines Body(x) appends>
ForLines(v, Body(_)) ==
  LET it == Iter(v) IN
    Flat([i \in DOMAIN it |-> IF IsExc(it[i]) THEN <<it[i]>> ELSE Body(it[i])])

\* Python: f"{v:,}"
FmtComma(v) ==
  IF IsExc(v) THEN v
  ELSE IF IsInt(v) THEN S(IntToStrComma(v.i))
  ELSE IF IsBool(v) THEN S(IF v.b THEN "1" ELSE "0")
  ELSE IF IsStr(v) THEN Exc("ValueError: Cannot specify ',' with 's'.")
  ELSE Exc("TypeError: unsupported format string passed to __format__")

\* a guard that only asks for a non-empty list
list_guard_any(x, message_too) == IsList(x) /\ x.l # <<>>

\* isinstance(x, list) and x and "error" not in str(x[0]) [and "message" not in str(x[0])]
list_guard(x, message_too) ==
  /\ IsList(x)
  /\ x.l # <<>>
  /\ ~Contains("error", Str(x.l[1]))
  /\ message_too => ~Contains("message", Str(x.l[1]))

\* isinstance(x, dict) and x.get(key), the test that guards every item of a list section
item_guard(x, key) == IsDict(x) /\ Truthy(Get(x, key, None))

section_instant(instant) ==
  IF IsDict(instant) /\ Truthy(Get(instant, "answer", None))
  THEN << Fmt(<<S("### Quick Answer\n"), Item(instant, "answer"), S("\n")>>) >>
  ELSE <<>>

section_wikipedia(wiki) ==
  IF IsDict(wiki) /\ Truthy(Get(wiki, "exists", None))
  THEN << Fmt(<<S("### Wikipedia: "), Get(wiki, "title", S("N/A"))>>),
          Fmt(<<SliceV(Get(wiki, "summary", S("No summary")), 500), S("...")>>),
          Fmt(<<S("[Read more]("), Get(wiki, "url", S("")), S(")\n")>>) >>
  ELSE <<>>

ddg_item(item) ==
  IF IsDict(item)
  THEN << Fmt(<<S("- **"), Get(item, "title", S("N/A")), S("**")>>),
          Fmt(<<S("  "), SliceV(Get(item, "body", S("")), 150), S("...")>>) >>
       \o When(Get(item, "href", None),
               << Fmt(<<S("  [Link]("), Get(item, "href", None), S(")")>>) >>)
  ELSE <<>>

\* the section without the cap on its items
section_duckduckgo_uncapped(ddg) ==
  IF list_guard(ddg, FALSE)
  THEN <<S("### Web Results")>> \o ForLines(ddg, ddg_item) \o <<S("")>>
  ELSE <<>>

section_duckduckgo(ddg) ==
  IF list_guard(ddg, FALSE)
  THEN <<S("### Web Results")>> \o ForLines(SliceV(ddg, 3), ddg_item) \o <<S("")>>
  ELSE <<>>

arxiv_item(paper) ==
  IF item_guard(paper, "title")
  THEN LET authors == JoinV(", ", SliceV(Get(paper, "authors", L(<<>>)), 2)) IN
    IF IsExc(authors) THEN <<authors>>
    ELSE << Fmt(<<S("- **"), Get(paper, "title", S("N/A")), S("**")>>),
            Fmt(<<S("  Authors: "), authors, S(" | Published: "),
                  Get(paper, "published", S("N/A"))>>),
            Fmt(<<S("  "), SliceV(Get(paper, "summary", S("")), 200), S("...")>>) >>
         \o When(Get(paper, "url", None),
                 << Fmt(<<S("  [View Paper]("), Get(paper, "url", None), S(")")>>) >>)
  ELSE <<>>

section_arxiv(arxiv_data) ==
  IF list_guard(arxiv_data, TRUE)
  THEN <<S("### Scientific Papers (ArXiv)")>>
       \o ForLines(SliceV(arxiv_data, 3), arxiv_item) \o <<S("")>>
  ELSE <<>>

pubmed_item(article) ==
  IF item_guard(article, "title")
  THEN LET authors == JoinV(", ", SliceV(Get(article, "authors", L(<<>>)), 2)) IN
    IF IsExc(authors) THEN <<authors>>
    ELSE << Fmt(<<S("- **"), Get(article, "title", S("N/A")), S("**")>>),
            Fmt(<<S("  Authors: "), authors, S(" | Year: "),
                  Get(article, "year", S("N/A"))>>),
            Fmt(<<S("  "), SliceV(Get(article, "abstract", S("")), 200), S("...")>>) >>
         \o When(Get(article, "url", None),
                 << Fmt(<<S("  [View Article]("), Get(article, "url", None), S(")")>>) >>)
  ELSE <<>>

section_pubmed(pubmed_data) ==
  IF list_guard(pubmed_data, TRUE)
  THEN <<S("### Medical Research (PubMed)")>>
       \o ForLines(SliceV(pubmed_data, 3), pubmed_item) \o <<S("")>>
  ELSE <<>>

books_item(book) ==
  IF item_guard(book, "title")
  THEN LET authors == JoinV(", ", SliceV(Get(book, "authors", L(<<>>)), 2)) IN
    IF IsExc(authors) THEN <<authors>>
    ELSE << Fmt(<<S("- **"), Get(book, "title", S("N/A")), S("**")>>),
            Fmt(<<S("  Authors: "), authors, S(" | First Published: "),
                  Get(book, "first_publish_year", S("N/A"))>>) >>
         \o When(Get(book, "url", None),
                 << Fmt(<<S("  [View Book]("), Get(book, "url", None), S(")")>>) >>)
  ELSE <<>>

section_books(books_data) ==
  IF list_guard(books_data, TRUE)
  THEN <<S("### Books (OpenLibrary)")>>
       \o ForLines(SliceV(books_data, 3), books_item) \o <<S("")>>
  ELSE <<>>

wikidata_item(entity) ==
  IF item_guard(entity, "label")
  THEN << Fmt(<<S("- **"), Get(entity, "label", S("N/A")), S("**: "),
                Get(entity, "description", S("No description"))>>) >>
       \o When(Get(entity, "url", None),
               << Fmt(<<S("  [View]("), Get(entity, "url", None), S(")")>>) >>)
  ELSE <<>>

section_wikidata(wikidata) ==
  IF list_guard(wikidata, TRUE)
  THEN <<S("### Wikidata Entities")>>
       \o ForLines(SliceV(wikidata, 3), wikidata_item) \o <<S("")>>
  ELSE <<>>

\* a weather block that also asks for the location
section_weather_strict(weather) ==
  IF IsDict(weather) /\ ~HasKey(weather, "error")
     /\ Truthy(Get(weather, "temperature_c", None)) /\ Truthy(Get(weather, "location", None))
  THEN <<S("### Weather")>>
  ELSE <<>>

section_weather(weather) ==
  IF IsDict(weather) /\ ~HasKey(weather, "error")
     /\ Truthy(Get(weather, "temperature_c", None))
  THEN << S("### Weather"),
          Fmt(<<S("- Location: "), Get(weather, "location", S("N/A"))>>),
          Fmt(<<S("- Temperature: "), Get(weather, "temperature_c", S("N/A")), S("°C / "),
                Get(weather, "temperature_f", S("N/A")), S("°F")>>),
          Fmt(<<S("- Condition: "), Get(weather, "condition", S("N/A"))>>),
          Fmt(<<S("- Humidity: "), Get(weather, "humidity", S("N/A")), S("%")>>),
          S("") >>
  ELSE <<>>

aq_measurement_line(m) ==
  << Fmt(<<S("  - "), Get(m, "parameter", S("N/A")), S(": "), Get(m, "value", S("N/A")),
           S(" "), Get(m, "unit", S(""))>>) >>

aq_location_lines(loc) ==
  << Fmt(<<S("- Location: "), Get(loc, "location", S("N/A"))>>) >>
  \o ForLines(SliceV(Get(loc, "measurements", L(<<>>)), 3), aq_measurement_line)

section_air_quality(aq) ==
  IF IsDict(aq) /\ ~HasKey(aq, "error") /\ Truthy(Get(aq, "data", None))
  THEN << S("### Air Quality"), Fmt(<<S("- City: "), Get(aq, "city", S("N/A"))>>) >>
       \o ForLines(SliceV(Get(aq, "data", L(<<>>)), 2), aq_location_lines) \o <<S("")>>
  ELSE <<>>

section_geocoding(geo) ==
  IF IsDict(geo) /\ ~HasKey(geo, "error") /\ Truthy(Get(geo, "display_name", None))
  THEN << S("### Location Info"),
          Fmt(<<S("- "), Get(geo, "display_name", S("N/A"))>>),
          Fmt(<<S("- Coordinates: "), Get(geo, "latitude", S("N/A")), S(", "),
                Get(geo, "longitude", S("N/A"))>>) >>
       \o When(Get(geo, "osm_url", None),
               << Fmt(<<S("- [View on Map]("), Get(geo, "osm_url", None), S(")")>>) >>)
       \o <<S("")>>
  ELSE <<>>

news_item(article) ==
  IF item_guard(article, "title")
  THEN << Fmt(<<S("- **"), Get(article, "title", S("N/A")), S("**")>>) >>
       \o When(Get(article, "source", None),
               << Fmt(<<S("  Source: "), Get(article, "source", None), S(" | "),
                        Get(article, "date", S(""))>>) >>)
       \o << Fmt(<<S("  "), SliceV(Get(article, "body", S("")), 150), S("...")>>) >>
       \o When(Get(article, "url", None),
               << Fmt(<<S("  [Read Article]("), Get(article, "url", None), S(")")>>) >>)
  ELSE <<>>

section_news(news_data) ==
  IF list_guard(news_data, TRUE)
  THEN <<S("### News")>> \o ForLines(SliceV(news_data, 3), news_item) \o <<S("")>>
  ELSE <<>>

dictionary_defn(defn) ==
  << Fmt(<<S("- "), Get(defn, "definition", S(""))>>) >>
  \o When(Get(defn, "example", None),
          << Fmt(<<S("  *Example: \""), Get(defn, "example", None), S("\"*")>>) >>)

dictionary_meaning(meaning) ==
  << Fmt(<<S("**"), Get(meaning, "part_of_speech", S("")), S("**")>>) >>
  \o ForLines(SliceV(Get(meaning, "definitions", L(<<>>)), 2), dictionary_defn)

section_dictionary(dictionary) ==
  IF IsDict(dictionary) /\ ~HasKey(dictionary, "error") /\ ~HasKey(dictionary, "message")
     /\ Truthy(Get(dictionary, "word", None))
  THEN LET phonetics == Get(dictionary, "phonetics", L(<<>>)) IN
    << Fmt(<<S("### Dictionary: "), Get(dictionary, "word", S("N/A"))>>) >>
    \o When(phonetics,
            << Fmt(<<S("*Pronunciation: "), JoinV(", ", phonetics), S("*")>>) >>)
    \o ForLines(SliceV(Get(dictionary, "meanings", L(<<>>)), 2), dictionary_meaning)
    \o <<S("")>>
  ELSE <<>>

section_country(country) ==
  IF IsDict(country) /\ ~HasKey(country, "error") /\ ~HasKey(country, "message")
     /\ Truthy(Get(country, "name", None))
  THEN LET pop == Get(country, "population", S("N/A"))
           languages == Get(country, "languages", L(<<>>))
           currencies == Get(country, "currencies", L(<<>>))
       IN
    << Fmt(<<S("### Country: "), Get(country, "name", S("N/A")), S(" "),
             Get(country, "flag_emoji", S(""))>>),
       Fmt(<<S("- **Official Name**: "), Get(country, "official_name", S("N/A"))>>),
       Fmt(<<S("- **Capital**: "), Get(country, "capital", S("N/A"))>>),
       Fmt(<<S("- **Region**: "), Get(country, "region", S("N/A")), S(" / "),
             Get(country, "subregion", S("N/A"))>>),
       IF IsInt(pop) \/ IsBool(pop)
       THEN Fmt(<<S("- **Population**: "), FmtComma(pop)>>)
       ELSE Fmt(<<S("- **Population**: "), pop>>) >>
    \o When(languages,
            << Fmt(<<S("- **Languages**: "), JoinV(", ", SliceV(languages, 3))>>) >>)
    \o When(currencies,
            << Fmt(<<S("- **Currencies**: "), JoinV(", ", SliceV(currencies, 2))>>) >>)
    \o When(Get(country, "map_url", None),
            << Fmt(<<S("- [View on Map]("), Get(country, "map_url", None), S(")")>>) >>)
    \o <<S("")>>
  ELSE <<>>

quotes_item(quote) ==
  IF item_guard(quote, "content")
  THEN << Fmt(<<S("> \""), Get(quote, "content", S("")), S("\"")>>),
          Fmt(<<S("> - *"), Get(quote, "author", S("Unknown")), S("*")>>),
          S("") >>
  ELSE <<>>

section_quotes(quotes_data) ==
  IF list_guard(quotes_data, TRUE)
  THEN <<S("### Quotes")>> \o ForLines(SliceV(quotes_data, 3), quotes_item)
  ELSE <<>>

github_item(repo) ==
  IF item_guard(repo, "name")
  THEN << Fmt(<<S("- **"), Get(repo, "name", S("N/A")), S("** * "),
                FmtComma(Get(repo, "stars", I(0)))>>),
          Fmt(<<S("  "), SliceV(Get(repo, "description", S("No description")), 100),
                S("...")>>),
          Fmt(<<S("  Language: "), Get(repo, "language", S("N/A")), S(" | Forks: "),
                FmtComma(Get(repo, "forks", I(0)))>>) >>
       \o When(Get(repo, "url", None),
               << Fmt(<<S("  [View Repository]("), Get(repo, "url", None), S(")")>>) >>)
  ELSE <<>>

section_github(github_data) ==
  IF list_guard(github_data, TRUE)
  THEN <<S("### GitHub Repositories")>>
       \o ForLines(SliceV(github_data, 3), github_item) \o <<S("")>>
  ELSE <<>>

stackoverflow_item(q) ==
  IF item_guard(q, "title")
  THEN LET answered_emoji == IF Truthy(Get(q, "is_answered", None)) THEN S("[x]") ELSE S("[?]")
           tags == SliceV(Get(q, "tags", L(<<>>)), 3)
       IN
    << Fmt(<<S("- "), answered_emoji, S(" **"), Get(q, "title", S("N/A")), S("**")>>),
       Fmt(<<S("  Score: "), Get(q, "score", I(0)), S(" | Answers: "),
             Get(q, "answer_count", I(0)), S(" | Views: "),
             FmtComma(Get(q, "view_count", I(0)))>>) >>
    \o When(tags, << Fmt(<<S("  Tags: "), JoinV(", ", tags)>>) >>)
    \o When(Get(q, "url", None),
            << Fmt(<<S("  [View Question]("), Get(q, "url", None), S(")")>>) >>)
  ELSE <<>>

section_stackoverflow(so_data) ==
  IF list_guard(so_data, TRUE)
  THEN <<S("### Stack Overflow")>>
       \o ForLines(SliceV(so_data, 3), stackoverflow_item) \o <<S("")>>
  ELSE <<>>

\* the block `if "<name>" in results: ...` of format_results
Section(name, results) ==
  IF ~HasKey(results, name) THEN <<>>
  ELSE LET x == Lookup(results, name) IN
    CASE name = "duckduckgo_instant" -> section_instant(x)
      [] name = "wikipedia" -> section_wikipedia(x)
      [] name = "duckduckgo" -> section_duckduckgo(x)
      [] name = "arxiv" -> section_arxiv(x)
      [] name = "pubmed" -> section_pubmed(x)
      [] name = "books" -> section_books(x)
      [] name = "wikidata" -> section_wikidata(x)
      [] name = "weather" -> section_weather(x)
      [] name = "air_quality" -> section_air_quality(x)
      [] name = "geocoding" -> section_geocoding(x)
      [] name = "news" -> section_news(x)
      [] name = "dictionary" -> section_dictionary(x)
      [] name = "country" -> section_country(x)
      [] name = "quotes" -> section_quotes(x)
      [] name = "github" -> section_github(x)
      [] name = "stackoverflow" -> section_stackoverflow(x)

\* the order in which format_results visits the sources
SectionOrder ==
  << "duckduckgo_instant", "wikipedia", "duckduckgo", "arxiv", "pubmed", "books",
     "wikidata", "weather", "air_quality", "geocoding", "news", "dictionary",
     "country", "quotes", "github", "stackoverflow" >>

\* a formatter that visits the sources in the order the mapping holds them
output_list_arrival(query, results) ==
  << Fmt(<<S("## Search Results for: *"), S(query), S("*\n")>>) >>
  \o Flat([i \in DOMAIN results.d |-> Section(results.d[i][1], results)])

\* the list `output` when format_results reaches its return statement
output_list(query, results) ==
  << Fmt(<<S("## Search Results for: *"), S(query), S("*\n")>>) >>
  \o Flat([i \in DOMAIN SectionOrder |-> Section(SectionOrder[i], results)])

\* format_results(query, results): the text it returns, or the exception it raises
format_results(query, results) ==
  LET out == output_list(query, results) IN
    IF AnyExc(out) THEN FirstExc(out) ELSE JoinV("\n", L(out))

\* what the worker of `name` gets from func(*args) in an environment of kind `kind`
RunWorker(name, query, kind) ==
  IF kind = "fault" THEN Exc("MemoryError")
  ELSE RunAdapter(name, query, KindWorld(name, kind)).ret

(***************************************************************************)
(* detect_mode                                                             *)
(***************************************************************************)
UpperLetters == "ABCDEFGHIJKLMNOPQRSTUVWXYZ"
LowerLetters == "abcdefghijklmnopqrstuvwxyz"

LowerChar(c) ==
  IF \E k \in 1..Len(UpperLetters) : SubSeq(UpperLetters, k, k) = c
  THEN LET k == CHOOSE k \in 1..Len(UpperLetters) : SubSeq(UpperLetters, k, k) = c
       IN SubSeq(LowerLetters, k, k)
  ELSE c

\* Python: s.lower()
Lower(s) == JoinStr("", [i \in 1..Len(s) |-> LowerChar(SubSeq(s, i, i))])

search_keywords ==
  << "what is", "who is", "where is", "when is", "why is", "how to",
     "current", "latest", "news about", "weather in", "temperature in",
     "air quality in", "location of", "find", "search for", "look up",
     "define", "meaning of", "translate", "map of", "country",
     "research", "paper", "article", "study", "results", "information",
     "data", "statistics", "facts about", "population of", "capital of",
     "latest news", "current events", "breaking news", "headlines",
     "stock price", "market", "currency", "exchange rate", "price of",
     "history of", "timeline", "events", "historical", "biography",
     "recipe for", "how to cook", "how to make", "ingredients for",
     "distance between", "travel time", "route from", "directions to",
     "flights to", "hotels in", "restaurants near", "things to do in",
     "movies about", "books by", "author of", "director of", "cast of",
     "symptoms of", "treatment for", "cure for", "medicine for", "disease",
     "company profile", "business", "ceo of", "founder of", "products of",
     "scientific", "research on", "experiment", "study on", "paper about" >>

chat_keywords ==
  << "hello", "hi", "hey", "good morning", "good afternoon", "good evening",
     "how are you", "thank you", "thanks", "please", "could you", "can you",
     "would you", "tell me about", "explain", "describe", "discuss",
     "what do you think", "your opinion", "do you know", "do you think",
     "i want to", "i need help with", "help me", "assist me",
     "let's talk", "chat about", "converse", "conversation",
     "how do i", "what should i", "what would you", "what can you",
     "can we talk", "let's discuss", "i'd like to", "i'm wondering",
     "i'm curious", "i'm interested in", "what's your", "how's it going",
     "nice to meet you", "good to see you", "long time no see",
     "how have you been", "what's up", "what's new", "how's your day",
     "how's everything", "how's life", "how are things", "how do you do" >>

deep_think_keywords ==
  << "what is the meaning", "philosophy of", "why do we", "purpose of",
     "ethical", "moral dilemma", "should i", "what if", "imagine if",
     "theoretical", "hypothetical", "thought experiment", "deep question",
     "profound", "existential", "life and death", "universe", "cosmos",
     "consciousness", "mind", "soul", "spirituality", "religion",
     "love is", "happiness is", "success means", "beauty is",
     "truth is", "justice is", "freedom is", "equality is",
     "analyze this", "critically examine", "evaluate", "assess",
     "compare and contrast", "discuss the implications", "what are the consequences",
     "future of", "prediction", "forecast", "speculate", "theorize" >>

question_words == << "what", "who", "where", "when", "why", "how", "which" >>

conversational_patterns == << "how are you", "do you", "can you", "would you", "could you" >>

\* query_lower.startswith(keyword) or f" {keyword} " in f" {query_lower} "
keyword_test(keyword, query_lower) ==
  \/ StartsWith(query_lower, keyword)
  \/ Contains(" " \o keyword \o " ", " " \o query_lower \o " ")

\* for keyword in keywords: if <test>: return ...  (does the loop return?)
keyword_loop(keywords, query_lower) ==
  \E i \in DOMAIN keywords : keyword_test(keywords[i], query_lower)

\* a detect_mode whose last return statement is missing
detect_mode_no_default(query) ==
  LET query_lower == Strip(Lower(query)) IN
    IF keyword_loop(deep_think_keywords, query_lower) THEN S("deep_think")
    ELSE IF keyword_loop(search_keywords, query_lower) THEN S("search")
    ELSE IF keyword_loop(chat_keywords, query_lower) THEN S("chat")
    ELSE IF Len(Split(query_lower)) <= 2 THEN S("search")
    ELSE None

\* a detect_mode that runs the loop over search_keywords first
detect_mode_search_first(query) ==
  LET query_lower == Strip(Lower(query)) IN
    IF keyword_loop(search_keywords, query_lower) THEN S("search")
    ELSE IF keyword_loop(deep_think_keywords, query_lower) THEN S("deep_think")
    ELSE IF keyword_loop(chat_keywords, query_lower) THEN S("chat")
    ELSE S("search")

\* detect_mode(query)
detect_mode(query) ==
  LET query_lower == Strip(Lower(query))
      words == Split(query_lower)
  IN
    IF keyword_loop(deep_think_keywords, query_lower) THEN S("deep_think")
    ELSE IF keyword_loop(search_keywords, query_lower) THEN S("search")
    ELSE IF keyword_loop(chat_keywords, query_lower) THEN S("chat")
    ELSE IF Len(words) <= 2 THEN S("search")
    ELSE IF \E i \in DOMAIN question_words : StartsWith(query_lower, question_words[i])
         THEN S("search")
    ELSE IF /\ Contains("?", query)
            /\ ~\E i \in DOMAIN conversational_patterns :
                  Contains(conversational_patterns[i], query_lower)
         THEN S("search")
    ELSE S("chat")

(***************************************************************************)
(* summarize_results_for_ai                                                *)
(***************************************************************************)
summary_wikipedia(wiki) ==
  IF IsDict(wiki) /\ Truthy(Get(wiki, "exists", None))
  THEN << Fmt(<<S("Wikipedia: "), Get(wiki, "title", S("")), S(" - "),
                SliceV(Get(wiki, "summary", S("")), 300)>>) >>
  ELSE <<>>

summary_instant(instant) ==
  IF IsDict(instant) /\ Truthy(Get(instant, "answer", None))
  THEN << Fmt(<<S("Quick Answer: "), SliceV(Item(instant, "answer"), 200)>>) >>
  ELSE <<>>

summary_ddg_item(item) ==
  IF item_guard(item, "body")
  THEN << Fmt(<<S("Web: "), Get(item, "title", S("")), S(" - "),
                SliceV(Get(item, "body", S("")), 150)>>) >>
  ELSE <<>>

summary_arxiv_item(paper) ==
  IF item_guard(paper, "title")
  THEN << Fmt(<<S("Science: "), Get(paper, "title", S("")), S(" - "),
                SliceV(Get(paper, "summary", S("")), 150)>>) >>
  ELSE <<>>

summary_news_item(article) ==
  IF item_guard(article, "title")
  THEN << Fmt(<<S("News: "), Get(article, "title", S("")), S(" - "),
                SliceV(Get(article, "body", S("")), 100)>>) >>
  ELSE <<>>

summary_weather(weather) ==
  IF IsDict(weather) /\ Truthy(Get(weather, "temperature_c", None))
  THEN << Fmt(<<S("Weather in "), Get(weather, "location", S("N/A")), S(": "),
                Get(weather, "temperature_c", None), S("°C, "),
                Get(weather, "condition", S(""))>>) >>
  ELSE <<>>

summary_country(country) ==
  IF IsDict(country) /\ Truthy(Get(country, "name", None))
  THEN << Fmt(<<S("Country: "), Get(country, "name", None), S(" - Capital: "),
                Get(country, "capital", S("N/A")), S(", Population: "),
                Get(country, "population", S("N/A"))>>) >>
  ELSE <<>>

\* the block `if "<name>" in results: ...` of summarize_results_for_ai
summary_part(name, results) ==
  IF ~HasKey(results, name) THEN <<>>
  ELSE LET x == Lookup(results, name)
           some == IsList(x) /\ x.l # <<>>
       IN
    CASE name = "wikipedia" -> summary_wikipedia(x)
      [] name = "duckduckgo_instant" -> summary_instant(x)
      [] name = "duckduckgo" ->
           IF some THEN Flat([i \in DOMAIN SliceV(x, 2).l |-> summary_ddg_item(x.l[i])])
           ELSE <<>>
      [] name = "arxiv" ->
           IF some THEN Flat([i \in DOMAIN SliceV(x, 2).l |-> summary_arxiv_item(x.l[i])])
           ELSE <<>>
      [] name = "news" ->
           IF some THEN Flat([i \in DOMAIN SliceV(x, 2).l |-> summary_news_item(x.l[i])])
           ELSE <<>>
      [] name = "weather" -> summary_weather(x)
      [] name = "country" -> summary_country(x)

\* the order in which summarize_results_for_ai visits the sources
SummaryOrder ==
  <<"wikipedia", "duckduckgo_instant", "duckduckgo", "arxiv", "news", "weather", "country">>

\* the list summary_parts when summarize_results_for_ai reaches its return statement
summary_parts(results) ==
  Flat([i \in DOMAIN SummaryOrder |-> summary_part(SummaryOrder[i], results)])

\* summarize_results_for_ai(results): the text it returns, or the exception it raises
summarize_results_for_ai(results) ==
  LET parts == summary_parts(results) IN
    IF AnyExc(parts) THEN FirstExc(parts)
    ELSE IF parts # <<>> THEN JoinV("\n", L(parts))
    ELSE S("No relevant search results found.")

(***************************************************************************)
(* The generation wrapper                                                  *)
(***************************************************************************)
max_messages == 6

\* a truncation that keeps the oldest messages
truncate_messages_oldest(messages) ==
  IF Len(messages) > max_messages THEN SubSeq(messages, 1, max_messages) ELSE messages

\* truncate_messages(messages): messages[-max_messages:] of a longer list
truncate_messages(messages) ==
  IF Len(messages) > max_messages
  THEN SubSeq(messages, Len(messages) - max_messages + 1, Len(messages))
  ELSE messages

\* the text format_prompt adds for one message
prompt_part(msg) ==
  IF Item(msg, "role") = S("user")
  THEN Fmt(<<S("<|user|>\n"), Item(msg, "content"), S("</s>\n")>>)
  ELSE IF Item(msg, "role") = S("assistant")
  THEN Fmt(<<S("<|assistant|>\n"), Item(msg, "content"), S("</s>\n")>>)
  ELSE S("")

\* format_prompt(messages, system_prompt)
format_prompt(messages, system_prompt) ==
  Fmt(<<IF system_prompt # "" THEN Fmt(<<S("<|system|>\n"), S(system_prompt), S("</s>\n")>>)
        ELSE S("")>>
      \o [i \in DOMAIN messages |-> prompt_part(messages[i])]
      \o <<S("<|assistant|>\n")>>)

\* a wrapper that returns the model's text as it came
generate_response_unstripped(model, messages, system_prompt) ==
  [history |-> truncate_messages(messages),
   prompt |-> format_prompt(truncate_messages(messages), system_prompt),
   ret |-> model.reply]

\* generate_response(model, messages, system_prompt): the messages it keeps, the
\* prompt it gives the model, and what it returns or raises; model.reply is what the
\* call model(prompt, ...) gives
generate_response(model, messages, system_prompt) ==
  LET truncated_messages == truncate_messages(messages)
      prompt == format_prompt(truncated_messages, system_prompt)
      response == IF IsExc(prompt) THEN prompt ELSE model.reply
  IN [history |-> truncated_messages,
      prompt |-> prompt,
      ret |-> IF IsExc(response) THEN response ELSE S(Strip(response.s))]

(***************************************************************************)
(* The chat input handler                                                  *)
(***************************************************************************)
\* {"role": "user", "content": prompt, "metadata": detected_mode}
user_message(prompt, detected_mode) ==
  D(<< <<"role", S("user")>>, <<"content", S(prompt)>>, <<"metadata", detected_mode>> >>)

\* {"role": "assistant", "content": final_response}
assistant_message(final_response) ==
  D(<< <<"role", S("assistant")>>, <<"content", final_response>> >>)

\* a handler that asks the classifier whatever the radio button says
handling_mode_classified(mode, prompt) == detect_mode(prompt)

\* the mode a turn is handled in, from the sidebar's radio button
handling_mode(mode, prompt) ==
  CASE mode = "Auto-detect" -> detect_mode(prompt)
    [] mode = "Search Mode" -> S("search")
    [] mode = "Chat Mode" -> S("chat")
    [] OTHER -> S("deep_think")

\* the f-string enhanced_prompt of a search turn
enhanced_prompt(prompt, search_summary) ==
  Fmt(<<S("Based on these search results, answer the user's question: \""), S(prompt),
        S("\"\n\nSearch Results:\n"), search_summary,
        S("\n\nPlease provide a helpful, synthesized response based on the above information.")>>)

\* the f-string deep_think_prompt of a deep-think turn
deep_think_prompt(prompt) ==
  Fmt(<<S("The user has asked: \""), S(prompt),
        S("\"\n\nPlease provide a thoughtful, in-depth analysis or answer. Consider multiple perspectives, \nprovide detailed reasoning, and show your thought process. Don't search for external \ninformation - rely on your knowledge and reasoning abilities.")>>)

\* temp_messages = messages.copy(); temp_messages[-1] = {"role": "user", "content": text}:
\* the list st.session_state.messages and the list temp_messages after the two statements
temp_messages(messages, text) ==
  [stored |-> messages,
   temp |-> [messages EXCEPT
               ![Len(messages)] = D(<< <<"role", S("user")>>, <<"content", text>> >>)]]

\* `if detected_mode == "search"` with every turn taken for a search turn
is_search_always(detected_mode) == TRUE

\* `if detected_mode == "search"`
is_search(detected_mode) == detected_mode = S("search")

VARIABLES
  call,      \* the adapter invocation made: its name, argument, world and outcome
  query,     \* the query search_all_sources and format_results are given
  plan,      \* what each adapter meets in this run: a world, or "raise"
  pc,        \* where the caller of search_all_sources stands
  futures,   \* per task: its state, what func returned, what safe_search returned
  finished,  \* the finished futures as_completed has still to yield, oldest first
  overtakes, \* how many times a future got ahead of another so far
  collected, \* the futures as_completed has yielded
  results,   \* the dict search_all_sources builds, then format_results reads
  output,    \* what format_results returned
  session,   \* st.session_state: the conversation and the last search
  turn       \* the run of the script: its position and its local variables

\* the variables of the calls of the adapters, the aggregator and the formatter
aggVars == <<call, query, plan, pc, futures, finished, overtakes, collected, results, output>>

vars == <<aggVars, session, turn>>

NoSession ==
  [messages |-> <<>>, model_loaded |-> FALSE,
   last_search_results |-> None, last_formatted_results |-> None]

NoTurn ==
  [pc |-> "idle", prompt |-> "", mode |-> "", detected_mode |-> None,
   model |-> [loaded |-> FALSE, reply |-> None], before |-> <<>>,
   search_results |-> None, formatted_results |-> None, search_summary |-> None,
   given |-> <<>>, generated |-> None, final_response |-> None, raised |-> None,
   run |-> 0]

Idle == [name |-> "", arg |-> "", world |-> <<>>, out |-> Outcome(None, <<>>)]

(***************************************************************************)
(* One adapter, called on its own with any query in any world.             *)
(***************************************************************************)
CallAdapter(name) ==
  \E q \in Queries, w \in Worlds(name) :
    /\ call = Idle
    /\ call' = [name |-> name, arg |-> q, world |-> w, out |-> RunAdapter(name, q, w)]
    /\ UNCHANGED <<session, turn, query, plan, pc, futures, finished, overtakes, collected, results, output>>

Call_search_arxiv == CallAdapter("arxiv")
Call_search_duckduckgo == CallAdapter("duckduckgo")
Call_get_instant_answer == CallAdapter("duckduckgo_instant")
Call_search_news == CallAdapter("news")
Call_search_wikipedia == CallAdapter("wikipedia")
Call_get_weather_wttr == CallAdapter("weather")
Call_get_air_quality == CallAdapter("air_quality")
Call_search_wikidata == CallAdapter("wikidata")
Call_search_books == CallAdapter("books")
Call_search_pubmed == CallAdapter("pubmed")
Call_geocode_location == CallAdapter("geocoding")
Call_get_definition == CallAdapter("dictionary")
Call_search_country == CallAdapter("country")
Call_search_quotes == CallAdapter("quotes")
Call_search_github_repos == CallAdapter("github")
Call_search_stackoverflow == CallAdapter("stackoverflow")

NoFuture == [st |-> "none", raw |-> None, ret |-> None]

InitAdapter ==
  /\ call = Idle
  /\ query = ""
  /\ plan = [n \in SourceNames |-> "up"]
  /\ pc = "idle"
  /\ futures = [n \in SourceNames |-> NoFuture]
  /\ finished = <<>>
  /\ overtakes = 0
  /\ collected = {}
  /\ results = D(<<>>)
  /\ output = None
  /\ session = NoSession
  /\ turn = NoTurn

NextAdapter ==
  \/ Call_search_arxiv \/ Call_search_duckduckgo \/ Call_get_instant_answer
  \/ Call_search_news \/ Call_search_wikipedia \/ Call_get_weather_wttr
  \/ Call_get_air_quality \/ Call_search_wikidata \/ Call_search_books
  \/ Call_search_pubmed \/ Call_geocode_location \/ Call_get_definition
  \/ Call_search_country \/ Call_search_quotes \/ Call_search_github_repos
  \/ Call_search_stackoverflow

SpecAdapter == InitAdapter /\ [][NextAdapter]_vars

(***************************************************************************)
(* search_all_sources(query), then format_results on what it returned.     *)
(***************************************************************************)
\* the environments: all sources up or all down, but for at most MaxDeviant of them
RECURSIVE Deviations(_, _)
Deviations(base, k) ==
  IF k = 0 THEN {[n \in SourceNames |-> base]}
  ELSE LET fewer == Deviations(base, k - 1) IN
         fewer \cup {[p EXCEPT ![n] = kind] : p \in fewer, n \in SourceNames, kind \in Kinds}

Plans == Deviations("up", MaxDeviant) \cup Deviations("down", MaxDeviant)

Earlier(name) == {t \in SourceNames : Idx(t) < Idx(name)}

\* the workers submitted before `name` that still run
Overtaken(name) == {t \in Earlier(name) : futures[t].st = "running"}

\* the place of `name` in the sequence q
Place(q, name) == CHOOSE i \in DOMAIN q : q[i] = name

Without(q, name) == SubSeq(q, 1, Place(q, name) - 1) \o SubSeq(q, Place(q, name) + 1, Len(q))

\* a loop that ends with the first future yielded
as_completed_first(fs, yielded) == yielded # {}

\* the for loop over as_completed(futures) ends when every future was yielded
as_completed_exhausted(fs, yielded) == yielded = DOMAIN fs

InitSearch ==
  /\ call = Idle
  /\ query \in Queries
  /\ plan \in Plans
  /\ pc = "start"
  /\ futures = [n \in SourceNames |-> NoFuture]
  /\ finished = <<>>
  /\ overtakes = 0
  /\ collected = {}
  /\ results = D(<<>>)
  /\ output = None
  /\ session = NoSession
  /\ turn = NoTurn

\* results = {}; the executor is created; first_word is computed
Start ==
  /\ pc = "start"
  /\ results' = D(<<>>)
  /\ IF IsExc(first_word(query))
     THEN pc' = "raised" /\ output' = first_word(query)
     ELSE pc' = "submit" /\ UNCHANGED output
  /\ UNCHANGED <<session, turn, call, query, plan, futures, finished, overtakes, collected>>

\* executor.submit(safe_search, name, func, *args) of the next task of the dict display
Submit ==
  /\ pc = "submit"
  /\ LET i == Cardinality({n \in SourceNames : futures[n].st # "none"}) + 1 IN
       /\ futures' = [futures EXCEPT ![Sources[i]].st = "running"]
       /\ pc' = IF i = Len(Sources) THEN "collect" ELSE "submit"
  /\ UNCHANGED <<session, turn, call, query, plan, finished, overtakes, collected, results, output>>

\* a worker thread runs safe_search(name, func, *args) to its end
Finish(name) ==
  /\ futures[name].st = "running"
  /\ Len(finished) < MaxBacklog
  /\ overtakes + Cardinality(Overtaken(name)) <= MaxOvertake
  /\ LET raw == RunWorker(name, query, plan[name]) IN
       futures' = [futures EXCEPT ![name] =
                     [st |-> "done", raw |-> raw, ret |-> safe_search(name, raw)]]
  /\ finished' = Append(finished, name)
  /\ overtakes' = overtakes + Cardinality(Overtaken(name))
  /\ UNCHANGED <<session, turn, call, query, plan, pc, collected, results, output>>

\* one round of the loop: as_completed yields a finished future, future.result()
\* returns or re-raises, and the entry is stored
Collect(name) ==
  /\ pc = "collect"
  /\ name \in Range(finished)
  /\ overtakes + Place(finished, name) - 1 <= MaxOvertake
  /\ finished' = Without(finished, name)
  /\ overtakes' = overtakes + Place(finished, name) - 1
  /\ collected' = collected \cup {name}
  /\ LET r == futures[name].ret IN
       results' = IF IsExc(r)
                  THEN DictSet(results, name, D(<< <<"error", S(r.exc)>> >>))
                  ELSE DictSet(results, r.name, r.data)
  /\ UNCHANGED <<session, turn, call, query, plan, pc, futures, output>>

\* the loop ends, the with block shuts the executor down, return results
Return ==
  /\ pc = "collect"
  /\ as_completed_exhausted(futures, collected)
  /\ pc' = "returned"
  /\ UNCHANGED <<session, turn, call, query, plan, futures, finished, overtakes, collected, results, output>>

\* the caller passes the mapping to format_results
Format ==
  /\ pc = "returned"
  /\ output' = [lines |-> output_list(query, results),
                ret |-> format_results(query, results)]
  /\ pc' = "formatted"
  /\ UNCHANGED <<session, turn, call, query, plan, futures, finished, overtakes, collected, results>>

NextSearch ==
  \/ Start
  \/ Submit
  \/ \E name \in SourceNames : Finish(name)
  \/ \E name \in SourceNames : Collect(name)
  \/ Return
  \/ Format

SpecSearch == InitSearch /\ [][NextSearch]_vars

(***************************************************************************)
(* format_results on its own, over the mappings its caller can hand it:    *)
(* every source has the entry an environment of one kind gives it (or no   *)
(* entry at all), but for one source, which has any value its adapter can  *)
(* return, the marker safe_search makes, or no entry; and the entries were *)
(* inserted in the order of submission, or in the reverse order.           *)
(***************************************************************************)
\* what the adapter of `name` can return for the query q, and safe_search's marker
Returns(name, q) ==
  {RunAdapter(name, q, w).ret : w \in Worlds(name)}
    \cup {safe_search(name, Exc("MemoryError")).data}

\* the mapping when every source meets an environment of kind `kind`
Background(q, kind) ==
  IF kind = "absent" THEN D(<<>>)
  ELSE D([i \in DOMAIN Sources |->
            <<Sources[i], safe_search(Sources[i], RunWorker(Sources[i], q, kind)).data>>])

\* Python: del d[k], when k is a key of d
DictDel(dv, k) ==
  IF HasKey(dv, k)
  THEN LET at == CHOOSE i \in DOMAIN dv.d : dv.d[i][1] = k IN
         D(SubSeq(dv.d, 1, at - 1) \o SubSeq(dv.d, at + 1, Len(dv.d)))
  ELSE dv

\* the same entries, inserted in the reverse order
Reversed(dv) == D([i \in DOMAIN dv.d |-> dv.d[Len(dv.d) + 1 - i]])

Arrangements(dv) == {dv, Reversed(dv)}

\* the mapping of the specification's end-to-end scenario
ListSources ==
  {"duckduckgo", "arxiv", "pubmed", "books", "wikidata", "news", "quotes", "github",
   "stackoverflow"}

Scenario ==
  D([i \in DOMAIN Sources |->
       <<Sources[i],
         CASE Sources[i] = "weather" ->
                D(<< <<"temperature_c", S("18")>>, <<"condition", S("Cloudy")>> >>)
           [] Sources[i] = "wikipedia" -> D(<< <<"error", S("timeout")>> >>)
           [] Sources[i] \in ListSources -> L(<<>>)
           [] OTHER -> D(<<>>)>>])

\* one entry of a crowded list: it has the key every list section asks of its items
CrowdedItem(n) ==
  D(<< <<"title", S("Title " \o Digit(n))>>, <<"label", S("Label " \o Digit(n))>>,
       <<"name", S("Name " \o Digit(n))>>, <<"content", S("Content " \o Digit(n))>>,
       <<"body", S("Body " \o Digit(n))>> >>)

\* one location of a crowded air quality record, with four measurements
CrowdedLocation(n) ==
  D(<< <<"location", S("Station " \o Digit(n))>>,
       <<"measurements",
         L([k \in 1..4 |-> D(<< <<"parameter", S("pm" \o Digit(k))>>,
                                <<"value", I(k)>>, <<"unit", S("ug/m3")>> >>)])>> >>)

\* one meaning of a crowded dictionary record, with three definitions
CrowdedMeaning(n) ==
  D(<< <<"part_of_speech", S("noun " \o Digit(n))>>,
       <<"definitions",
         L([k \in 1..3 |-> D(<< <<"definition", S("Sense " \o Digit(k))>> >>)])>> >>)

\* every source returned more than its section shows: five entries in every list,
\* three locations of four measurements, three meanings of three definitions
Crowded ==
  D([i \in DOMAIN Sources |->
       <<Sources[i],
         CASE Sources[i] \in ListSources -> L([n \in 1..5 |-> CrowdedItem(n)])
           [] Sources[i] = "air_quality" ->
                D(<< <<"city", S("Paris")>>,
                     <<"data", L([n \in 1..3 |-> CrowdedLocation(n)])>> >>)
           [] Sources[i] = "dictionary" ->
                D(<< <<"word", S("python")>>,
                     <<"meanings", L([n \in 1..3 |-> CrowdedMeaning(n)])>> >>)
           [] OTHER -> D(<<>>)>>])

\* the mappings that differ from the mapping bg in the entry of one source
Variants(bg, q) ==
  UNION {{DictDel(bg, name)} \cup {DictSet(bg, name, v) : v \in Returns(name, q)} :
           name \in SourceNames}

FmtInputs(q) ==
  UNION {Arrangements(dv) :
           dv \in {Scenario, Crowded}
                 \cup UNION {Variants(bg, q) :
                               bg \in {Background(q, kind) : kind \in Kinds \cup {"absent"}}}}

InitFmt ==
  /\ call = Idle
  /\ query \in Queries
  /\ plan = [n \in SourceNames |-> "up"]
  /\ pc = "returned"
  /\ futures = [n \in SourceNames |-> NoFuture]
  /\ finished = <<>>
  /\ overtakes = 0
  /\ collected = {}
  /\ results \in FmtInputs(query)
  /\ output = None
  /\ session = NoSession
  /\ turn = NoTurn

NextFmt == Format

SpecFmt == InitFmt /\ [][NextFmt]_vars

(***************************************************************************)
(* detect_mode, called on a query and then once more on the same query.    *)
(***************************************************************************)
\* the words and phrases the queries are built of
ModeWords ==
  {"Hi", "history", "of", "mind", "mindful", "latest", "howdy", "why", "rain?",
   "do you", "cats", "is"}

\* the queries the specification names
ModeExamples ==
  {"", "hello", "what is the capital of France", "what if consciousness is an illusion",
   "hi there", "capital of France", "what is the meaning of life", "Python",
   "  Hi  "}

ModeQueries ==
  ModeExamples \cup {JoinStr(" ", ws) : ws \in SeqsUpTo(ModeWords, MaxWords)}

\* mode = detect_mode(query)
DetectMode ==
  \E q \in ModeQueries :
    /\ call = Idle
    /\ call' = [name |-> "detect_mode", arg |-> q, world |-> <<>>,
                out |-> Outcome(detect_mode(q), <<>>)]
    /\ UNCHANGED <<session, turn, query, plan, pc, futures, finished, overtakes, collected, results, output>>

\* detect_mode called again on the query of the first call
DetectAgain ==
  /\ call.name = "detect_mode"
  /\ output = None
  /\ output' = detect_mode(call.arg)
  /\ UNCHANGED <<session, turn, call, query, plan, pc, futures, finished, overtakes, collected, results>>

NextMode == DetectMode \/ DetectAgain

SpecMode == InitAdapter /\ [][NextMode]_vars

(***************************************************************************)
(* Static knowledge lookup (the final variant's component): a query is     *)
(* checked against a fixed table of knowledge entries, category by         *)
(* category, and then against a list of broader domain keywords.           *)
(* Confidences are in hundredths.                                          *)
(***************************************************************************)
KnowledgeEntry(category, key, description, confidence) ==
  [category |-> category, key |-> key, description |-> description,
   confidence |-> confidence]

\* the table, in the order the exact-topic check goes through it
KnowledgeBase ==
  << KnowledgeEntry("formulas", "ndvi", "(NIR - Red) / (NIR + Red)", 95),
     KnowledgeEntry("formulas", "evi", "2.5 * (NIR - Red) / (NIR + 6 Red - 7.5 Blue + 1)", 90),
     KnowledgeEntry("systems", "landsat", "30 m multispectral, 16 day revisit", 90),
     KnowledgeEntry("glossary", "raster", "a grid of cells, one value each", 85) >>

\* the broader domain keywords
DomainKeywords == <<"vegetation", "satellite", "remote sensing", "index">>

KnowledgeOutcome(outcome, entry, confidence) ==
  [outcome |-> outcome, entry |-> entry, confidence |-> confidence]

RECURSIVE exact_topic(_, _)
\* the exact-topic check from entry i on: the first entry whose key is a substring of
\* the question, None when there is none
exact_topic(question, i) ==
  IF i > Len(KnowledgeBase) THEN None
  ELSE IF Contains(KnowledgeBase[i].key, question) THEN KnowledgeBase[i]
  ELSE exact_topic(question, i + 1)

\* the question contains one of the broader domain keywords
domain_keyword(question) ==
  \E k \in 1..Len(DomainKeywords) : Contains(DomainKeywords[k], question)

\* the lookup with the two checks in the other order
lookup_knowledge_domain_first(question) ==
  LET entry == exact_topic(question, 1)
  IN IF domain_keyword(question) THEN KnowledgeOutcome("partial", None, 50)
     ELSE IF entry # None THEN KnowledgeOutcome("exact", entry, entry.confidence)
     ELSE KnowledgeOutcome("none", None, 0)

\* the lookup: an exact-topic match with the entry's authored confidence; failing
\* that, a partial match with a fixed moderate confidence when a domain keyword is
\* in the question; failing that, no match
lookup_knowledge(question) ==
  LET entry == exact_topic(question, 1)
  IN IF entry # None THEN KnowledgeOutcome("exact", entry, entry.confidence)
     ELSE IF domain_keyword(question) THEN KnowledgeOutcome("partial", None, 50)
     ELSE KnowledgeOutcome("none", None, 0)

KnowledgeWords == {"ndvi", "evi", "raster", "vegetation", "index", "formula", "hello"}

KnowledgeQueries == {JoinStr(" ", ws) : ws \in SeqsUpTo(KnowledgeWords, MaxWords)}

\* the lookup of one query
LookupKnowledge ==
  \E q \in KnowledgeQueries :
    /\ call = Idle
    /\ call' = [name |-> "lookup_knowledge", arg |-> q, world |-> <<>>,
                out |-> Outcome(lookup_knowledge(q), <<>>)]
    /\ UNCHANGED <<session, turn, query, plan, pc, futures, finished, overtakes, collected, results, output>>

NextKnowledge == LookupKnowledge

SpecKnowledge == InitAdapter /\ [][NextKnowledge]_vars

(***************************************************************************)
(* The app: one run of the script per interaction.  A chat input is        *)
(* handled in the steps of the handler; search_all_sources is one step     *)
(* here, its threads are the subject of SpecSearch.                        *)
(***************************************************************************)
\* st.session_state.system_prompt: PRESET_PROMPTS["Search Analyst"], its first line
SystemPrompt == "You are an intelligent search analyst. Your role is to:"

InputModes == {"Auto-detect", "Search Mode", "Chat Mode", "Deep Think"}

\* what is typed into the chat input
Prompts == {"hello", "Python", "what if time is an illusion"}

\* what the call model(prompt, ...) gives: a text, blank text, or an exception
Replies ==
  {S(" Paris is the capital of France. "), S(" \n"), Exc("RuntimeError: Failed to generate")}

\* load_model() of this run: the model, or None after a failed load; the cache of
\* st.cache_resource keeps a model that was loaded once
Models ==
  {[loaded |-> l, reply |-> r] :
     l \in (IF session.model_loaded THEN {TRUE} ELSE BOOLEAN), r \in Replies}

\* a mapping whose github entry has a repository without a description
NullDescription(q) ==
  DictSet(Background(q, "up"), "github",
          RunAdapter("github", q, <<OkItems("items", <<ParisRepo,
              D(<< <<"name", S("bare")>>, <<"description", None>> >>)>>)>>).ret)

\* what search_all_sources(prompt) returns to the handler, per prompt
Aggregates ==
  [q \in Prompts |-> {Background(q, "up"), Background(q, "down"), NullDescription(q)}]

\* the three example buttons
QuickActions ==
  {user_message("What is quantum computing?", S("search")),
   user_message("How are you doing today?", S("chat")),
   user_message("What is the meaning of life from a philosophical perspective?",
                S("deep_think"))}

\* the script is not in the middle of a run
AtRest == turn.pc \in {"idle", "done", "raised"}

\* `if model and st.session_state.model_loaded`
Available == turn.model.loaded /\ session.model_loaded

\* conversations that earlier runs of the script left in the session
Greeting ==
  << user_message("hello", S("chat")), assistant_message(S("Hello! How can I help?")) >>

Conversations ==
  {<<>>,
   Greeting \o Greeting,
   Greeting \o Greeting \o Greeting}

InitTurn ==
  /\ call = Idle
  /\ query = ""
  /\ plan = [n \in SourceNames |-> "up"]
  /\ pc = "idle"
  /\ futures = [n \in SourceNames |-> NoFuture]
  /\ finished = <<>>
  /\ overtakes = 0
  /\ collected = {}
  /\ results = D(<<>>)
  /\ output = None
  /\ \E messages \in Conversations :
       session = [NoSession EXCEPT !.messages = messages,
                                   !.model_loaded = messages # <<>>]
  /\ turn = NoTurn

\* lines 1408-1415 and 1443-1463: the model is loaded, the mode of the turn is fixed
\* and the user message is stored
ChatInput ==
  /\ AtRest
  /\ turn.run < MaxRuns
  /\ Len(session.messages) + 2 <= MaxMessages
  /\ UNCHANGED aggVars
  /\ \E prompt \in Prompts, mode \in InputModes, model \in Models :
       LET detected_mode == handling_mode(mode, prompt) IN
         /\ session' = [session EXCEPT
                          !.messages = Append(@, user_message(prompt, detected_mode)),
                          !.model_loaded = @ \/ model.loaded]
         /\ turn' = [NoTurn EXCEPT !.pc = "handle", !.prompt = prompt, !.mode = mode,
                                   !.detected_mode = detected_mode, !.model = model,
                                   !.before = session.messages, !.run = turn.run + 1]

\* lines 1480-1482: search_results = search_all_sources(prompt)
Aggregate ==
  /\ turn.pc = "handle"
  /\ is_search(turn.detected_mode)
  /\ UNCHANGED aggVars
  /\ \E search_results \in Aggregates[turn.prompt] :
       /\ session' = [session EXCEPT !.last_search_results = search_results]
       /\ turn' = [turn EXCEPT !.pc = "aggregated", !.search_results = search_results]

\* lines 1484-1485: formatted_results = format_results(prompt, search_results)
FormatResults ==
  /\ turn.pc = "aggregated"
  /\ LET formatted_results == format_results(turn.prompt, turn.search_results) IN
       IF IsExc(formatted_results)
       THEN /\ turn' = [turn EXCEPT !.pc = "raised", !.raised = formatted_results]
            /\ UNCHANGED session
       ELSE /\ session' = [session EXCEPT !.last_formatted_results = formatted_results]
            /\ turn' = [turn EXCEPT !.pc = "formatted",
                                    !.formatted_results = formatted_results]
  /\ UNCHANGED aggVars

\* a summarizer that takes the entries out of the mapping as it reads them
\* (wiki = results.pop("wikipedia"))
Summarize_popping ==
  /\ turn.pc = "formatted"
  /\ Available
  /\ LET search_summary == summarize_results_for_ai(turn.search_results)
         copy == temp_messages(session.messages,
                               enhanced_prompt(turn.prompt, search_summary))
         popped == DictDel(turn.search_results, "wikipedia")
     IN
       IF IsExc(search_summary)
       THEN /\ turn' = [turn EXCEPT !.pc = "raised", !.raised = search_summary]
            /\ UNCHANGED session
       ELSE /\ turn' = [turn EXCEPT !.pc = "summarized",
                                    !.search_summary = search_summary,
                                    !.given = copy.temp,
                                    !.search_results = popped]
            /\ session' = [session EXCEPT !.messages = copy.stored,
                                          !.last_search_results = popped]
  /\ UNCHANGED aggVars

\* lines 1492-1502: the summary, the enhanced prompt and the temporary messages
Summarize ==
  /\ turn.pc = "formatted"
  /\ Available
  /\ LET search_summary == summarize_results_for_ai(turn.search_results)
         copy == temp_messages(session.messages,
                               enhanced_prompt(turn.prompt, search_summary))
     IN
       IF IsExc(search_summary)
       THEN /\ turn' = [turn EXCEPT !.pc = "raised", !.raised = search_summary]
            /\ UNCHANGED session
       ELSE /\ turn' = [turn EXCEPT !.pc = "summarized",
                                    !.search_summary = search_summary,
                                    !.given = copy.temp]
            /\ session' = [session EXCEPT !.messages = copy.stored]
  /\ UNCHANGED aggVars

\* the handler's call of generate_response on the messages `given`,
\* st.session_state.messages being `stored` by then
Respond(stored, given) ==
  LET generated == generate_response(turn.model, given, SystemPrompt) IN
    /\ session' = [session EXCEPT !.messages = stored]
    /\ IF IsExc(generated.ret)
       THEN turn' = [turn EXCEPT !.pc = "raised", !.raised = generated.ret,
                                 !.given = given, !.generated = generated]
       ELSE turn' = [turn EXCEPT !.pc = "respond", !.given = given,
                                 !.generated = generated, !.final_response = generated.ret]

\* lines 1504-1513: the analysis of a search turn
GenerateAnalysis ==
  /\ turn.pc = "summarized"
  /\ Respond(session.messages, turn.given)
  /\ UNCHANGED aggVars

\* lines 1514-1518: a search turn without the model shows the formatted results
ShowResults ==
  /\ turn.pc = "formatted"
  /\ ~Available
  /\ turn' = [turn EXCEPT !.pc = "respond", !.final_response = turn.formatted_results]
  /\ UNCHANGED <<session, aggVars>>

\* lines 1532-1553: a deep-think turn with the model
DeepThink ==
  /\ turn.pc = "handle"
  /\ ~is_search(turn.detected_mode)
  /\ turn.detected_mode = S("deep_think")
  /\ Available
  /\ LET copy == temp_messages(session.messages, deep_think_prompt(turn.prompt)) IN
       Respond(copy.stored, copy.temp)
  /\ UNCHANGED aggVars

\* lines 1560-1571: a chat turn with the model
Chat ==
  /\ turn.pc = "handle"
  /\ ~is_search(turn.detected_mode)
  /\ turn.detected_mode # S("deep_think")
  /\ Available
  /\ Respond(session.messages, session.messages)
  /\ UNCHANGED aggVars

\* lines 1554-1556 and 1572-1574: a deep-think or chat turn without the model
Apologize ==
  /\ turn.pc = "handle"
  /\ ~is_search(turn.detected_mode)
  /\ ~Available
  /\ turn' = [turn EXCEPT
                !.pc = "respond",
                !.final_response =
                   IF turn.detected_mode = S("deep_think")
                   THEN S("I need the AI model to perform deep thinking analysis.")
                   ELSE S("I need the AI model to chat with you.")]
  /\ UNCHANGED <<session, aggVars>>

\* lines 1577-1580: the assistant's message is stored
StoreResponse ==
  /\ turn.pc = "respond"
  /\ session' = [session EXCEPT
                   !.messages = Append(@, assistant_message(turn.final_response))]
  /\ turn' = [turn EXCEPT !.pc = "done"]
  /\ UNCHANGED aggVars

\* lines 1586-1611: an example button stores its user message and reruns the script
QuickAction ==
  /\ AtRest
  /\ turn.run < MaxRuns
  /\ Len(session.messages) + 1 <= MaxMessages
  /\ UNCHANGED aggVars
  /\ turn' = [NoTurn EXCEPT !.run = turn.run + 1]
  /\ \E example \in QuickActions, model \in Models :
       session' = [session EXCEPT !.messages = Append(@, example),
                                  !.model_loaded = @ \/ model.loaded]

\* lines 1392-1396: the Clear Chat button
ClearChat ==
  /\ AtRest
  /\ turn.run < MaxRuns
  /\ UNCHANGED aggVars
  /\ turn' = [NoTurn EXCEPT !.run = turn.run + 1]
  /\ \E model \in Models :
       session' = [session EXCEPT !.messages = <<>>, !.last_search_results = None,
                                  !.last_formatted_results = None,
                                  !.model_loaded = @ \/ model.loaded]

NextTurn ==
  \/ ChatInput \/ Aggregate \/ FormatResults \/ Summarize \/ GenerateAnalysis
  \/ ShowResults \/ DeepThink \/ Chat \/ Apologize \/ StoreResponse
  \/ QuickAction \/ ClearChat

SpecTurn == InitTurn /\ [][NextTurn]_vars

(***************************************************************************)
(* The claims.                                                             *)
(***************************************************************************)
RegisteredNames ==
  {"arxiv", "duckduckgo", "duckduckgo_instant", "news", "wikipedia", "weather",
   "air_quality", "wikidata", "books", "pubmed", "geocoding", "dictionary", "country",
   "quotes", "github", "stackoverflow"}

\* an error marker: a dict with the key "error"
IsMarkerRecord(x) == IsDict(x) /\ HasKey(x, "error")

Returned == pc \in {"returned", "formatted"}

\* C1: search_all_sources never raises, and when it has returned, for every query
\* (empty and whitespace-only included) and every mix of adapters that succeed,
\* return a marker or raise, the keys of the mapping are exactly the 16 registered
\* source names, each once.
C1_KeysAreTheSixteenSources ==
  /\ pc # "raised"
  /\ Returned => /\ IsDict(results)
                 /\ Keys(results) = RegisteredNames
                 /\ Len(results.d) = 16

\* search_all_sources has returned on an empty query, on which one adapter raised
\* and another returned an error marker
C1_Witness ==
  /\ pc = "returned"
  /\ query = ""
  /\ \E a, b \in SourceNames :
       /\ IsExc(futures[a].raw)
       /\ plan[b] = "down" /\ IsMarkerRecord(futures[b].raw)

\* what the entry of `name` must be: its own adapter's value, or the marker of its
\* own exception
OwnEntry(name) ==
  IF IsExc(futures[name].raw) THEN D(<< <<"error", S(futures[name].raw.exc)>> >>)
  ELSE futures[name].raw

\* C2: at every moment of every completion order, the mapping holds an entry exactly
\* for the futures yielded so far, and the entry under a name is the value that
\* name's own adapter returned, or the marker built from its own exception; so no
\* adapter, failing or not, changes, replaces or removes another's entry.
C2_EntryIsOwnAdaptersValue ==
  \A name \in SourceNames :
    /\ name \in collected => HasKey(results, name) /\ Lookup(results, name) = OwnEntry(name)
    /\ HasKey(results, name) => name \in collected
    /\ Len(results.d) = Cardinality(collected)

\* a worker got ahead of another, and the entries of an adapter that raised and of
\* one that succeeded are both in the mapping
C2_Witness ==
  /\ overtakes > 0
  /\ \E a, b \in collected :
       /\ IsExc(futures[a].raw)
       /\ plan[b] = "up" /\ ~IsMarkerRecord(Lookup(results, b))

\* C3: search_all_sources has not returned while any of the 16 dispatched calls is
\* unfinished (none is skipped or cancelled, whatever the others did), and an entry
\* stored while other workers still run stays in the mapping.
C3_ReturnsAfterAllFinished ==
  /\ Returned => \A name \in SourceNames : futures[name].st = "done"
  /\ \A name \in collected : futures[name].st = "done" /\ HasKey(results, name)

\* an entry is kept in the mapping while a worker submitted earlier still runs, in a
\* run where an adapter fails
C3_Witness ==
  /\ pc = "collect"
  /\ \E fast \in collected, slow \in SourceNames :
       /\ futures[slow].st = "running"
       /\ Idx(slow) < Idx(fast)
       /\ HasKey(results, fast)
  /\ \E name \in SourceNames : plan[name] \in {"down", "fault"}

\* the records of what an adapter returned
Records(ret) == IF IsList(ret) THEN Range(ret.l) ELSE {ret}

\* C4: whatever the query (empty included) and whatever its outbound calls meet (a
\* failed or timed-out request, a body that does not parse, an unexpected schema),
\* each of the 16 adapters returns a list or a record: no exception leaves it.
C4_AdaptersNeverRaise ==
  call.name # "" => /\ ~IsExc(call.out.ret)
                    /\ IsList(call.out.ret) \/ IsDict(call.out.ret)

\* search_pubmed on an empty query whose second response does not parse
C4_Witness ==
  /\ call.name = "pubmed"
  /\ call.arg = ""
  /\ call.world[1] = Resp(200, PubmedIds(L(<<S("31"), S("32")>>)))
  /\ call.world[2] = Resp(200, Malformed)
  /\ \E r \in Records(call.out.ret) : IsMarkerRecord(r)

\* C5: in what an adapter returns, on every failure path (a failure after some items
\* were extracted included), a record with the key "error" has no other key: no
\* title, content, summary or body stands beside an error marker.
C5_MarkerCarriesOnlyTheMessage ==
  \A r \in Records(call.out.ret) : IsMarkerRecord(r) => Keys(r) = {"error"}

\* search_github_repos fails on the second item, after the first was extracted
C5_Witness ==
  /\ call.name = "github"
  /\ call.world = <<OkItems("items", <<ParisRepo, NotAnObject>>)>>
  /\ call.out.ret = L(<<D(<< <<"error", S("AttributeError: no attribute 'get'")>> >>)>>)

\* the header that opens the section of a source
Header(name) ==
  CASE name = "duckduckgo_instant" -> "### Quick Answer"
    [] name = "wikipedia" -> "### Wikipedia"
    [] name = "duckduckgo" -> "### Web Results"
    [] name = "arxiv" -> "### Scientific Papers (ArXiv)"
    [] name = "pubmed" -> "### Medical Research (PubMed)"
    [] name = "books" -> "### Books"
    [] name = "wikidata" -> "### Wikidata"
    [] name = "weather" -> "### Weather"
    [] name = "air_quality" -> "### Air Quality"
    [] name = "geocoding" -> "### Location"
    [] name = "news" -> "### News"
    [] name = "dictionary" -> "### Dictionary"
    [] name = "country" -> "### Country"
    [] name = "quotes" -> "### Quotes"
    [] name = "github" -> "### GitHub"
    [] name = "stackoverflow" -> "### Stack Overflow"

\* the one fixed order of the sections
FixedOrder ==
  << "duckduckgo_instant", "wikipedia", "duckduckgo", "arxiv", "pubmed", "books",
     "wikidata", "weather", "air_quality", "geocoding", "news", "dictionary",
     "country", "quotes", "github", "stackoverflow" >>

\* the field whose presence makes a record of the source worth showing
PrimaryField(name) ==
  CASE name = "duckduckgo_instant" -> "answer"
    [] name = "wikipedia" -> "exists"
    [] name = "weather" -> "temperature_c"
    [] name = "air_quality" -> "data"
    [] name = "geocoding" -> "display_name"
    [] name = "dictionary" -> "word"
    [] name = "country" -> "name"
    [] name = "wikidata" -> "label"
    [] name = "quotes" -> "content"
    [] name = "github" -> "name"
    [] OTHER -> "title"

\* format_results returned a document
Document == pc = "formatted" /\ IsStr(output.ret)

\* the lines of the document that open the section of `name`
HeaderLines(name) ==
  {i \in DOMAIN output.lines : StartsWith(output.lines[i].s, Header(name))}

Shown(name) == Document /\ HeaderLines(name) # {}

Place16(name) == CHOOSE i \in DOMAIN FixedOrder : FixedOrder[i] = name

\* C6: the document format_results returns does not depend on the order in which
\* the entries were inserted into the mapping (the order the workers completed in):
\* it is the text made of the lines, and the same text for the same entries held in
\* the reverse order; and its sections stand in the one fixed order Quick Answer,
\* Wikipedia, Web Results, ArXiv, PubMed, Books, Wikidata, Weather, Air Quality,
\* Location, News, Dictionary, Country, Quotes, GitHub, Stack Overflow, each at most
\* once.
C6_OutputIndependentOfInsertionOrder ==
  pc = "formatted" =>
    /\ output.ret = format_results(query, Reversed(results))
    /\ Document =>
         LET at == [name \in RegisteredNames |-> HeaderLines(name)] IN
           /\ output.ret = JoinV("\n", L(output.lines))
           /\ \A a \in RegisteredNames : Cardinality(at[a]) <= 1
           /\ \A a, b \in RegisteredNames :
                Place16(a) < Place16(b) => \A i \in at[a], j \in at[b] : i < j

\* all 16 sections are rendered from a mapping filled in the reverse of the order
\* of submission
C6_Witness ==
  /\ Document
  /\ results = Reversed(Background(query, "up"))
  /\ \A name \in RegisteredNames : Shown(name)

IsListMarker(x, key) ==
  IsList(x) /\ Len(x.l) = 1 /\ IsDict(x.l[1]) /\ HasKey(x.l[1], key)

\* an error marker: the dict, or the one-element list holding it
IsMarker(x) == IsMarkerRecord(x) \/ IsListMarker(x, "error")

\* a "no results" / "not found" message record
IsMessage(x) == (IsDict(x) /\ HasKey(x, "message")) \/ IsListMarker(x, "message")

\* non-empty by the source's predicate
NonEmpty(name, x) ==
  IF name \in ListSources THEN IsList(x) /\ x.l # <<>>
  ELSE IsDict(x) /\ Truthy(Get(x, PrimaryField(name), None))

\* the entry of `name` is one that must not be rendered
Unshowable(name) ==
  \/ ~HasKey(results, name)
  \/ IsMarker(Lookup(results, name))
  \/ IsMessage(Lookup(results, name))
  \/ Lookup(results, name) = L(<<>>)

\* C7: in the document format_results returns, a source has a section only if its
\* entry is present, is not an error marker and is non-empty by the source's
\* predicate; and a source whose entry is missing, an error marker (dict or
\* one-element list), an empty list or a message record has no header and no line:
\* the lines are those of the mapping without that entry.
C7_SectionOnlyForShowableEntry ==
  Document =>
    \A name \in RegisteredNames :
      /\ Shown(name) => /\ HasKey(results, name)
                        /\ ~IsMarker(Lookup(results, name))
                        /\ NonEmpty(name, Lookup(results, name))
      /\ Unshowable(name) => /\ ~Shown(name)
                             /\ output.lines = output_list(query, DictDel(results, name))

\* a document with a section, made from a mapping that holds a one-element error
\* list, an error dict, a message record and an empty list
C7_Witness ==
  /\ Document
  /\ \E name \in RegisteredNames : Shown(name)
  /\ \E a, b, c, d \in Keys(results) :
       /\ IsListMarker(Lookup(results, a), "error")
       /\ IsMarkerRecord(Lookup(results, b))
       /\ IsMessage(Lookup(results, c))
       /\ Lookup(results, d) = L(<<>>)

\* a genuine record of the source: no error marker key, primary field populated
Genuine(name, r) ==
  IsDict(r) /\ ~HasKey(r, "error") /\ Truthy(Get(r, PrimaryField(name), None))

\* C8: in the document format_results returns, every list-producing source whose
\* list holds at least one genuine record has its section, whatever the text of the
\* record's fields and wherever the record stands in the list.
C8_GenuineRecordGetsSection ==
  Document =>
    \A name \in ListSources :
      (/\ HasKey(results, name)
       /\ IsList(Lookup(results, name))
       /\ \E r \in Range(Lookup(results, name).l) : Genuine(name, r))
      => Shown(name)

Line(text) == \E i \in DOMAIN output.lines : output.lines[i] = S(text)

\* C9: for the mapping in which weather is {temperature_c: "18", condition:
\* "Cloudy"}, wikipedia is {error: "timeout"} and the other 14 sources are empty,
\* format_results returns a document with a Weather section showing 18 degrees C and
\* Cloudy, and with no section for Wikipedia or any other source.
C9_WeatherScenario ==
  (pc = "formatted" /\ results \in Arrangements(Scenario)) =>
    /\ Document
    /\ Shown("weather")
    /\ Line("- Temperature: 18°C / N/A°F")
    /\ Line("- Condition: Cloudy")
    /\ \A name \in RegisteredNames \ {"weather"} : ~Shown(name)

\* format_results has run on the scenario's mapping
C9_Witness == pc = "formatted" /\ results = Scenario

\* C10: when all 16 adapters fail, search_all_sources returns 16 error-marker
\* entries, and format_results returns for them a document that says that no
\* results were found.
C10_AllFailedSaysNoResults ==
  (pc = "formatted" /\ \A name \in RegisteredNames : plan[name] \in {"down", "fault"}) =>
    /\ Len(results.d) = 16
    /\ \A name \in RegisteredNames : IsMarker(Lookup(results, name))
    /\ Document
    /\ Contains("o results", output.ret.s)

\* C11: whatever mapping search_all_sources can return, format_results returns a
\* document: it raises nothing while it reads and renders the fields of the records.
C11_FormatNeverRaises ==
  pc = "formatted" => IsStr(output.ret) /\ ~AnyExc(output.lines)

Modes == {S("search"), S("chat"), S("deep_think")}

\* C12: detect_mode returns, for every query, one of search, chat and deep_think and
\* raises nothing; called again on the same query it returns the same mode.
C12_DetectModeTotal ==
  /\ call.name = "detect_mode" => call.out.ret \in Modes
  /\ call.name = "detect_mode" /\ output # None => output = call.out.ret

\* a query that no test of detect_mode accepts (the final return), asked twice
C12_Witness ==
  /\ call.name = "detect_mode"
  /\ call.arg = "cats cats cats"
  /\ call.out.ret = S("chat")
  /\ output = S("chat")

\* the keyword occurs in the text as a whole word or phrase: whitespace or the
\* boundary of the text on both sides
WholeWord(keyword, text) ==
  \E i \in 1..(Len(text) - Len(keyword) + 1) :
    /\ SubSeq(text, i, i + Len(keyword) - 1) = keyword
    /\ i = 1 \/ IsSpace(SubSeq(text, i - 1, i - 1))
    /\ i + Len(keyword) - 1 = Len(text)
         \/ IsSpace(SubSeq(text, i + Len(keyword), i + Len(keyword)))

\* some keyword of the list occurs in the lower-cased query as a whole word or phrase
Matched(keywords, q) ==
  \E i \in DOMAIN keywords : WholeWord(keywords[i], Strip(Lower(q)))

Asked == call.name = "detect_mode"

Mode == call.out.ret

\* C13: a query matching a deep-think keyword gives deep_think; one matching a search
\* keyword and no deep-think keyword gives search; one matching a chat keyword and
\* neither of the other two gives chat, wherever in the query the keywords stand.
C13_KeywordPriority ==
  Asked =>
    /\ Matched(deep_think_keywords, call.arg) => Mode = S("deep_think")
    /\ ~Matched(deep_think_keywords, call.arg) /\ Matched(search_keywords, call.arg)
         => Mode = S("search")
    /\ ~Matched(deep_think_keywords, call.arg) /\ ~Matched(search_keywords, call.arg)
         /\ Matched(chat_keywords, call.arg) => Mode = S("chat")

\* the loop over the list found a keyword that its test accepts
Found(keywords) == keyword_loop(keywords, Strip(Lower(call.arg)))

\* C14: a keyword matches only when it occurs in the lower-cased query as a whole
\* word or phrase, never as a part of a longer word: the list whose loop returned
\* the mode has a keyword that occurs so.
C14_KeywordsAreWholeWords ==
  Asked =>
    /\ Found(deep_think_keywords) => Matched(deep_think_keywords, call.arg)
    /\ ~Found(deep_think_keywords) /\ Found(search_keywords)
         => Matched(search_keywords, call.arg)
    /\ ~Found(deep_think_keywords) /\ ~Found(search_keywords) /\ Found(chat_keywords)
         => Matched(chat_keywords, call.arg)

\* the words of the lower-cased query
QueryWords == Split(Strip(Lower(call.arg)))

NoKeyword ==
  /\ ~Matched(deep_think_keywords, call.arg)
  /\ ~Matched(search_keywords, call.arg)
  /\ ~Matched(chat_keywords, call.arg)

\* the first word of the query is one of the interrogative words
Interrogative == QueryWords # <<>> /\ QueryWords[1] \in Range(question_words)

\* the query holds one of the conversational patterns
Conversational ==
  \E i \in DOMAIN conversational_patterns :
    Contains(conversational_patterns[i], Strip(Lower(call.arg)))

\* C15: when no keyword matches, a query of at most 2 words gives search; otherwise
\* one that starts with an interrogative word gives search; otherwise one with a
\* question mark and no conversational pattern gives search; otherwise chat.
C15_FallbackOrder ==
  Asked /\ NoKeyword =>
    Mode = IF Len(QueryWords) <= 2 THEN S("search")
           ELSE IF Interrogative THEN S("search")
           ELSE IF Contains("?", call.arg) /\ ~Conversational THEN S("search")
           ELSE S("chat")

\* C16: "hi there" gives chat, "capital of France" search, "what is the meaning of
\* life" deep_think (the deep-think phrase wins over "what is") and "Python" search.
C16_DocumentedExamples ==
  Asked =>
    /\ call.arg = "hi there" => Mode = S("chat")
    /\ call.arg = "capital of France" => Mode = S("search")
    /\ call.arg = "what is the meaning of life" => Mode = S("deep_think")
    /\ call.arg = "Python" => Mode = S("search")

\* the example in which a deep-think phrase and a search phrase both match
C16_Witness ==
  /\ Asked
  /\ call.arg = "what is the meaning of life"
  /\ Found(search_keywords)
  /\ Mode = S("deep_think")

\* the unbounded upstream text fields of the records
TextFields == {"summary", "abstract", "body", "content", "description"}

\* the greatest character budget the specification names for a field, and the
\* length of the truncation marker "..."
TextBudget == 1000
MarkerLen == 3

\* C17: a text field of a returned record is never longer than the adapter's bound
\* plus the truncation marker: an oversized upstream value comes back cut.
C17_TextFieldsBounded ==
  call.name \in SourceNames =>
    \A r \in Records(call.out.ret) :
      IsDict(r) =>
        \A j \in DOMAIN r.d :
          r.d[j][1] \in TextFields /\ IsStr(r.d[j][2])
            => Len(r.d[j][2].s) <= TextBudget + MarkerLen

\* the adapters that talk HTTP themselves (the other two go through a client library)
HttpAdapters == SourceNames \ {"arxiv", "wikipedia"}

\* what the call returned is an error marker
ErrorOutcome(ret) == \E r \in Records(ret) : IsDict(r) /\ HasKey(r, "error")

\* the call issued one request and got an answer with a status
Answered ==
  /\ call.name \in HttpAdapters
  /\ Len(call.out.reqs) = 1
  /\ "status" \in DOMAIN call.world[1]

\* what the same call returns when the answer has the status st
WithStatus(st) ==
  RunAdapter(call.name, call.arg, [call.world EXCEPT ![1].status = st]).ret

\* C18: a 404 gives an empty or not-found outcome that is no error marker; a 403 gives
\* an error marker with a message of its own; any other status outside 2xx, and a
\* body that does not parse, gives an error marker.
C18_StatusMapping ==
  Answered =>
    LET st == call.world[1].status IN
      /\ st = 404 => ~ErrorOutcome(call.out.ret)
      /\ st = 403 => ErrorOutcome(call.out.ret) /\ call.out.ret # WithStatus(500)
      /\ st \notin {200, 403, 404} \/ "malformed" \in DOMAIN call.world[1].body
           => ErrorOutcome(call.out.ret)

\* C19: one invocation of an adapter issues exactly one outbound request, search_pubmed
\* at most two: no adapter sends a second request after its first failed or came
\* back empty.
C19_OneRequestPerInvocation ==
  call.name \in HttpAdapters =>
    IF call.name = "pubmed" THEN Len(call.out.reqs) \in {1, 2}
    ELSE Len(call.out.reqs) = 1

\* what the ID search of the search_pubmed call gave: the ID list of its body, or the
\* exception of a request or a body that failed
idlist ==
  Get(Get(Json(HttpGet(call.world, 1)), "esearchresult", D(<<>>)), "idlist", L(<<>>))

NoArticles == L(<<D(<< <<"message", S("No articles found")>> >>)>>)

\* C20 (as stated): when the ID search of search_pubmed fails or returns no IDs, the
\* adapter ends with the "no results" outcome and the detail fetch is not issued; the
\* detail fetch is issued only after a non-empty ID list came back.
C20_FirstStepNoResults ==
  call.name = "pubmed" =>
    /\ IsExc(idlist) \/ ~Truthy(idlist) =>
         call.out.ret = NoArticles /\ Len(call.out.reqs) = 1
    /\ Len(call.out.reqs) = 2 => IsList(idlist) /\ idlist.l # <<>>

\* C20 (amended): when the ID search of search_pubmed fails the adapter ends with an
\* error marker, when it returns no IDs with the "no results" outcome; in both cases
\* the detail fetch is not issued, and the detail fetch is issued only after a
\* non-empty ID list came back.
C20_FirstStepTerminal ==
  call.name = "pubmed" =>
    /\ IsExc(idlist) =>
         ErrorOutcome(call.out.ret) /\ Len(call.out.reqs) = 1
    /\ ~IsExc(idlist) /\ ~Truthy(idlist) =>
         call.out.ret = NoArticles /\ Len(call.out.reqs) = 1
    /\ Len(call.out.reqs) = 2 => IsList(idlist) /\ idlist.l # <<>>

\* a search_pubmed call whose ID search returned an empty ID list with status 200
C20_Witness ==
  /\ call.name = "pubmed"
  /\ ~IsExc(idlist) /\ IsList(idlist) /\ idlist.l = <<>>
  /\ call.out.ret = NoArticles
  /\ Len(call.out.reqs) = 1

Role(msg) == Item(msg, "role")
Content(msg) == Item(msg, "content")

\* the turn in hand came through the chat input
Submitted == turn.pc # "idle"

\* what a turn emits when the model cannot generate
Fallback ==
  CASE turn.detected_mode = S("search") -> turn.formatted_results
    [] turn.detected_mode = S("deep_think") ->
         S("I need the AI model to perform deep thinking analysis.")
    [] OTHER -> S("I need the AI model to chat with you.")

\* C21: once the script is at rest, every user message of the conversation is followed
\* at once by exactly one assistant message, and this message is not empty, whether the
\* model is loaded, missing or fails; a turn without the model emits the formatter's
\* text (search) or the fixed apology (chat, deep think).
C21_EveryQueryAnswered ==
  AtRest =>
    /\ \A i \in DOMAIN session.messages :
         LET msg == session.messages[i] IN
           /\ Role(msg) = S("user") =>
                /\ i < Len(session.messages)
                /\ Role(session.messages[i + 1]) = S("assistant")
                /\ IsStr(Content(session.messages[i + 1]))
                /\ Content(session.messages[i + 1]) # S("")
           /\ Role(msg) = S("assistant") =>
                i > 1 /\ Role(session.messages[i - 1]) = S("user")
    /\ Submitted /\ ~Available => turn.pc = "done" /\ turn.final_response = Fallback

\* a step of the handler after the user message was stored
InTurn == turn.pc \notin {"idle", "done", "raised"}

\* search_all_sources has returned in this turn
Aggregated == turn.search_results # None

\* C22: a step of a chat or deep-think turn neither calls search_all_sources nor changes
\* last_search_results and last_formatted_results; in a search turn the formatted text,
\* the summary and the generation exist only once search_all_sources has returned, and
\* the summary and the generation only once the text was formatted.
C22_SearchOnlyInSearchTurns ==
  /\ [][InTurn /\ turn.detected_mode # S("search") =>
          /\ ~Aggregated'
          /\ session'.last_search_results = session.last_search_results
          /\ session'.last_formatted_results = session.last_formatted_results]_vars
  /\ [](Submitted /\ turn.detected_mode = S("search") =>
          /\ turn.formatted_results # None => Aggregated
          /\ turn.search_summary # None => Aggregated /\ turn.formatted_results # None
          /\ turn.generated # None => turn.search_summary # None)
  /\ [][InTurn /\ ~Aggregated /\ Aggregated' =>
          /\ turn'.formatted_results = None
          /\ turn'.search_summary = None
          /\ turn'.generated = None]_vars

\* a chat turn that ended after an earlier search turn, whose results are still stored
C22_Witness ==
  /\ turn.pc = "done"
  /\ turn.detected_mode = S("chat")
  /\ turn.generated # None
  /\ session.last_search_results # None
  /\ session.last_formatted_results # None

\* the user message the turn in hand stored
StoredQuery == session.messages[Len(turn.before) + 1]

\* the branch of the handler the turn went through, by what the branch leaves behind
Handled ==
  IF Aggregated THEN S("search")
  ELSE IF turn.final_response = S("I need the AI model to perform deep thinking analysis.")
          \/ (turn.generated # None
               /\ Content(turn.given[Len(turn.given)]) = deep_think_prompt(turn.prompt))
       THEN S("deep_think")
  ELSE S("chat")

Selected ==
  CASE turn.mode = "Search Mode" -> S("search")
    [] turn.mode = "Chat Mode" -> S("chat")
    [] turn.mode = "Deep Think" -> S("deep_think")

\* C23: with Auto-detect the turn is handled in the mode detect_mode gives; with Search
\* Mode, Chat Mode or Deep Think it is handled in that mode whatever detect_mode gives;
\* the mode stored with the user message is the mode of the branch the turn went through.
C23_ModeOverride ==
  Submitted /\ turn.pc # "handle" =>
    /\ turn.mode = "Auto-detect" => Handled = detect_mode(turn.prompt)
    /\ turn.mode # "Auto-detect" => Handled = Selected
    /\ Item(StoredQuery, "metadata") = Handled

\* a turn in Chat Mode on a query the classifier takes for a search, answered by the model
C23_Witness ==
  /\ turn.pc = "done"
  /\ turn.mode = "Chat Mode"
  /\ detect_mode(turn.prompt) = S("search")
  /\ turn.generated # None
  /\ Handled = S("chat")

\* s is a prefix of t
Prefix(s, t) == Len(s) <= Len(t) /\ SubSeq(t, 1, Len(s)) = s

\* the messages generate_response put into the prompt
History == turn.generated.history

\* History is the list `given` cut to its last max_messages messages, in their order
RecentOf(given) ==
  /\ Len(History) = Min(max_messages, Len(given))
  /\ \A k \in 1..Len(History) :
       History[Len(History) + 1 - k] = given[Len(given) + 1 - k]

Enhanced ==
  /\ turn.generated # None
  /\ turn.detected_mode \in {S("search"), S("deep_think")}

\* C30: in a search or deep-think turn the enhanced prompt stands only in the messages
\* given to the model; the conversation keeps the query and its mode tag as they were
\* stored and every earlier message, and when the turn is over it has grown by the
\* user message and one assistant message.
C30_EnhancedPromptIsTemporary ==
  Submitted /\ turn.detected_mode \in {S("search"), S("deep_think")} =>
    /\ Prefix(turn.before, session.messages)
    /\ StoredQuery = user_message(turn.prompt, turn.detected_mode)
    /\ Enhanced =>
         /\ Content(turn.given[Len(turn.given)]) # S(turn.prompt)
         /\ Content(turn.given[Len(turn.given)]) =
              (IF turn.detected_mode = S("search")
               THEN enhanced_prompt(turn.prompt, turn.search_summary)
               ELSE deep_think_prompt(turn.prompt))
    /\ AtRest =>
         /\ Len(session.messages) = Len(turn.before) + 2
         /\ Role(session.messages[Len(session.messages)]) = S("assistant")

\* C25: once search_all_sources has returned, no step of the turn changes the mapping
\* it returned: format_results, summarize_results_for_ai and the rest of the handler
\* leave it and every record in it as they were, under both names the handler has for
\* it (search_results and st.session_state.last_search_results).
C25_AggregateResultIsReadOnly ==
  /\ [][InTurn /\ Aggregated =>
          /\ turn'.search_results = turn.search_results
          /\ session'.last_search_results = turn.search_results]_vars
  /\ [](Submitted /\ Aggregated => session.last_search_results = turn.search_results)

\* a search turn that formatted, summarized and generated, and is over
C25_Witness ==
  /\ turn.pc = "done"
  /\ Aggregated
  /\ turn.formatted_results # None
  /\ turn.search_summary # None
  /\ turn.generated # None
  /\ session.last_search_results = Background(turn.prompt, "up")

\* the step writes the entry of `name` into the mapping and nothing else
WritesOnly(name) ==
  /\ ~HasKey(results, name)
  /\ Keys(results') = Keys(results) \cup {name}
  /\ \A k \in Keys(results) : Lookup(results', k) = Lookup(results, k)

\* C26: in every interleaving of the sixteen workers, a step that changes the mapping is
\* a step of the collecting loop: it writes one key that was not written before, leaves
\* the other entries alone, and is no step of a worker (a worker only hands over its
\* pair); when search_all_sources returns, every key has been written.
C26_RaceFreeInsertion ==
  /\ [][results' # results =>
          /\ pc = "collect"
          /\ futures' = futures
          /\ \E name \in SourceNames : WritesOnly(name)]_vars
  /\ [][futures' # futures => results' = results]_vars
  /\ [](Returned => Keys(results) = SourceNames /\ Len(results.d) = Len(Sources))

\* search_all_sources returned a mapping whose first entry is not the first task's:
\* the workers finished in another order than they were submitted
C26_Witness ==
  /\ pc = "returned"
  /\ Len(results.d) = Len(Sources)
  /\ results.d[1][1] # Sources[1]

\* C27: every outbound network call of an adapter is made with a bounded wait (a
\* timeout of some seconds; a request logged with timeout 0 was made without one), so
\* that the adapter finishes, with a result or its error marker, whatever the far
\* side does.
C27_BoundedWait ==
  \A i \in 1..Len(call.out.reqs) : call.out.reqs[i].timeout > 0

\* a knowledge lookup was made
LookedUp == call.name = "lookup_knowledge"

\* the keys of the table that are in the query of the lookup
KeysInQuery == {i \in 1..Len(KnowledgeBase) : Contains(KnowledgeBase[i].key, call.arg)}

\* C28: a query with "ndvi" in it gets the exact-match outcome with the NDVI entry
\* and its authored confidence of 0.95, whatever domain keywords it also contains;
\* the outcome is the partial match only when no key of the table is in the query
\* and a domain keyword is; a query with neither gets no match and confidence 0.
C28_KnowledgePrecedence ==
  LookedUp =>
    LET out == call.out.ret IN
      /\ Contains("ndvi", call.arg) =>
           /\ out.outcome = "exact"
           /\ out.entry.key = "ndvi"
           /\ out.confidence = 95
      /\ KeysInQuery # {} =>
           /\ out.outcome = "exact"
           /\ \E i \in KeysInQuery :
                /\ out.entry = KnowledgeBase[i]
                /\ out.confidence = KnowledgeBase[i].confidence
                /\ \A j \in KeysInQuery : i <= j
      /\ KeysInQuery = {} /\ domain_keyword(call.arg) =>
           out.outcome = "partial" /\ out.confidence \notin {0, 95}
      /\ KeysInQuery = {} /\ ~domain_keyword(call.arg) =>
           out.outcome = "none" /\ out.confidence = 0

\* a query with "ndvi" and a broader domain keyword in it was looked up
C28_Witness ==
  /\ LookedUp
  /\ Contains("ndvi", call.arg)
  /\ domain_keyword(call.arg)
  /\ call.out.ret.outcome = "exact"

\* the text of a line of the output (an exception in place of a line has none)
LineText(line) == IF IsStr(line) THEN line.s ELSE ""

\* the lines of the output that follow the section heading at line h, up to the next
\* heading
SectionBody(lines, h) ==
  {j \in (h + 1)..Len(lines) :
     \A k \in (h + 1)..j : ~StartsWith(LineText(lines[k]), "###")}

\* every section of the output whose heading begins with `heading` has at most n lines
\* that begin with `mark`
AtMost(lines, heading, mark, n) ==
  \A h \in DOMAIN lines :
    StartsWith(LineText(lines[h]), heading) =>
      Cardinality({j \in SectionBody(lines, h) : StartsWith(LineText(lines[j]), mark)}) <= n

\* in every section whose heading begins with `heading`, every line that begins with
\* `group` is followed, before the next such line, by at most n lines that begin
\* with `mark`
AtMostEach(lines, heading, group, mark, n) ==
  \A h \in DOMAIN lines :
    StartsWith(LineText(lines[h]), heading) =>
      \A g \in SectionBody(lines, h) :
        StartsWith(LineText(lines[g]), group) =>
          Cardinality({j \in SectionBody(lines, h) :
                         /\ j > g
                         /\ StartsWith(LineText(lines[j]), mark)
                         /\ \A k \in (g + 1)..j :
                              ~StartsWith(LineText(lines[k]), group)}) <= n

\* the headings of the list sections and the beginning of the first line of an item
ItemMarks ==
  { <<"### Web Results", "- **">>, <<"### Scientific Papers (ArXiv)", "- **">>,
    <<"### Medical Research (PubMed)", "- **">>, <<"### Books (OpenLibrary)", "- **">>,
    <<"### Wikidata Entities", "- **">>, <<"### News", "- **">>,
    <<"### Quotes", "> \"">>, <<"### GitHub Repositories", "- **">>,
    <<"### Stack Overflow", "- [">> }

\* C29: whatever the sources returned, a section of the formatted output shows at most
\* 3 items of a list source, at most 2 locations of at most 3 measurements each for
\* air quality, and at most 2 meanings of at most 2 definitions each for the
\* dictionary.
C29_ItemCaps ==
  pc = "formatted" =>
    /\ \A hm \in ItemMarks : AtMost(output.lines, hm[1], hm[2], 3)
    /\ AtMost(output.lines, "### Air Quality", "- Location: ", 2)
    /\ AtMostEach(output.lines, "### Air Quality", "- Location: ", "  - ", 3)
    /\ AtMost(output.lines, "### Dictionary: ", "**", 2)
    /\ AtMostEach(output.lines, "### Dictionary: ", "**", "- ", 2)

\* the output has the line
HasLine(text) == \E j \in DOMAIN output.lines : output.lines[j] = S(text)

\* the crowded mapping was formatted: the sections show the last entry within their
\* caps and not the next one
C29_Witness ==
  /\ pc = "formatted"
  /\ results = Crowded
  /\ HasLine("- **Title 3**") /\ ~HasLine("- **Title 4**")
  /\ HasLine("> \"Content 3\"") /\ ~HasLine("> \"Content 4\"")
  /\ HasLine("- [?] **Title 3**") /\ ~HasLine("- [?] **Title 4**")
  /\ HasLine("- Location: Station 2") /\ ~HasLine("- Location: Station 3")
  /\ HasLine("  - pm3: 3 ug/m3") /\ ~HasLine("  - pm4: 4 ug/m3")
  /\ HasLine("**noun 2**") /\ ~HasLine("**noun 3**")
  /\ HasLine("- Sense 2") /\ ~HasLine("- Sense 3")

=============================================================================
